---- MODULE Spec2Model ----
(***************************************************************************)
(* A model of the TOML v0.4.0 library kezhuw/toml: the scanner-driven      *)
(* parser of parse.go (one action per scanner function, one operator per   *)
(* parser method), the value tree of internal/types, and the emitter of    *)
(* encode.go on map-shaped input.                                          *)
(*                                                                         *)
(* Bytes are one-character strings; the byte 0x00 is the token NUL, which  *)
(* is also the value of the scanner's eof sentinel (parse.go:15).          *)
(* Pointers to tables and arrays are addresses into `heap`; address 1 is   *)
(* the root table.                                                         *)
(***************************************************************************)
EXTENDS Integers, Sequences, FiniteSets, TLC

(***************************************************************************)
(* Bytes and character classes                                             *)
(***************************************************************************)

\* The byte sequence of a string literal.
Chars(s) == [i \in 1..Len(s) |-> SubSeq(s, i, i)]

Range(f) == {f[i] : i \in DOMAIN f}

\* The byte 0x00, and the rune the scanner returns at end of input.
NUL == "NUL"
eof == NUL

Digits == Range(Chars("0123456789"))
Uppers == Range(Chars("ABCDEFGHIJKLMNOPQRSTUVWXYZ"))
Lowers == Range(Chars("abcdefghijklmnopqrstuvwxyz"))

isDigit(r) == r \in Digits

\* As in the source, every ASCII letter counts as a hexadecimal digit.
isHex(r) == r \in Uppers \cup Lowers \cup Digits

isSpace(r) == r = " " \/ r = "\t"

isBareKeyChar(r) == r \in Uppers \cup Lowers \cup Digits \cup {"-", "_"}

\* A byte with no character of its own below (a control byte, the backquote,
\* a byte above 0x7f) is the token "x" followed by its decimal value.
ByteTok(n) == "x" \o ToString(n)

\* Printable ASCII in code-point order: 0x20 to 0x5f, and 0x61 to 0x7e.
AsciiLow == Chars(" !\"#$%&'()*+,-./0123456789:;<=>?@ABCDEFGHIJKLMNOPQRSTUVWXYZ[\\]^_")
AsciiHigh == Chars("abcdefghijklmnopqrstuvwxyz{|}~")

\* The code point of an ASCII byte.
CodePoint(c) ==
    CASE c = NUL -> 0
      [] c = "\t" -> 9
      [] c = "\n" -> 10
      [] c = "\f" -> 12
      [] c = "\r" -> 13
      [] c \in Range(AsciiLow) -> 31 + (CHOOSE i \in DOMAIN AsciiLow : AsciiLow[i] = c)
      [] c \in Range(AsciiHigh) -> 96 + (CHOOSE i \in DOMAIN AsciiHigh : AsciiHigh[i] = c)
      [] OTHER -> CHOOSE n \in 0..127 : ByteTok(n) = c

\* The ASCII byte of a code point below 0x80.
CharOf(n) ==
    CASE n = 0 -> NUL
      [] n = 9 -> "\t"
      [] n = 10 -> "\n"
      [] n = 12 -> "\f"
      [] n = 13 -> "\r"
      [] n \in 32..95 -> AsciiLow[n - 31]
      [] n \in 97..126 -> AsciiHigh[n - 96]
      [] OTHER -> ByteTok(n)

(***************************************************************************)
(* Sequences                                                               *)
(***************************************************************************)

Last(s) == s[Len(s)]
Front(s) == SubSeq(s, 1, Len(s) - 1)

RECURSIVE Concat(_)
Concat(ss) == IF ss = <<>> THEN <<>> ELSE Head(ss) \o Concat(Tail(ss))

HasPrefix(s, prefix) ==
    Len(s) >= Len(prefix) /\ SubSeq(s, 1, Len(prefix)) = prefix

\* strings.Split: the pieces of d between the occurrences of sep.
RECURSIVE Split(_, _)
Split(d, sep) ==
    LET at == {i \in 1..(Len(d) - Len(sep) + 1) : SubSeq(d, i, i + Len(sep) - 1) = sep}
        i == CHOOSE x \in at : \A y \in at : x <= y
    IN  IF at = {} THEN <<d>>
        ELSE <<SubSeq(d, 1, i - 1)>> \o Split(SubSeq(d, i + Len(sep), Len(d)), sep)

(***************************************************************************)
(* Values (internal/types) and errors                                      *)
(***************************************************************************)

Nil == "nil"

Boolean(b) == [type |-> "boolean", v |-> b]
Integer(i) == [type |-> "integer", v |-> i]
Float(f) == [type |-> "float", v |-> f]
String(s) == [type |-> "string", v |-> s]
Datetime(t) == [type |-> "datetime", v |-> t]
\* *types.Table and *types.Array: a pointer is the address of the object.
TablePtr(a) == [type |-> "table", v |-> a]
ArrayPtr(a) == [type |-> "array", v |-> a]

\* &types.Table{Implicit: implicit, Elems: make(map[string]types.Value)}
NewTable(implicit) == [kind |-> "table", Implicit |-> implicit, Elems |-> <<>>]
\* &types.Array{Closed: closed, Elems: elems}
NewArray(closed, elems) == [kind |-> "array", Closed |-> closed, Elems |-> elems]

\* m[key] = value on a Go map.
MapSet(m, key, value) ==
    [k \in DOMAIN m \cup {key} |-> IF k = key THEN value ELSE m[k]]

NoError == [kind |-> Nil]
\* &ParseError{line, pos, err}; Err carries the format string of the message.
ParseError(line, pos, msg) ==
    [kind |-> "ParseError", Line |-> line, Pos |-> pos, Err |-> msg]
\* A panic of the Go runtime (index out of range, failed type assertion).
RuntimeError(msg) == [kind |-> "runtime.Error", Err |-> msg]

(***************************************************************************)
(* The parser: its fields and its methods.  A method is an operator from   *)
(* the parser record to the parser record; a method that also returns a    *)
(* value returns a record holding the parser as p.  The scanner a scanner  *)
(* function returns is the field next; a value being panicked is the field *)
(* panic, and a method called while a panic unwinds does nothing.          *)
(***************************************************************************)

Root == 1

newParser(s) ==
    [mark |-> -1, pos |-> 0, line |-> 1, input |-> s, backups |-> <<>>,
     heap |-> <<NewTable(FALSE)>>, envs |-> <<[env |-> Root, path |-> <<>>]>>,
     keys |-> <<>>, names |-> <<>>,
     str |-> [parts |-> <<>>],
     num |-> [sign |-> <<>>, e |-> <<>>, esign |-> <<>>,
              integers |-> <<>>, fractions |-> <<>>, exponents |-> <<>>],
     scanners |-> <<>>, err |-> NoError,
     panic |-> NoError, next |-> "scanTop"]

Panicking(p) == p.panic.kind # Nil
panic(p, v) == IF Panicking(p) THEN p ELSE [p EXCEPT !.panic = v, !.next = Nil]
Return(p, s) == IF Panicking(p) THEN p ELSE [p EXCEPT !.next = s]

pushScanner(p, s) == [p EXCEPT !.scanners = Append(@, s)]

popScanner(p) ==
    IF Panicking(p) THEN p
    ELSE IF p.scanners = <<>> THEN panic(p, RuntimeError("index out of range"))
    ELSE [p EXCEPT !.scanners = Front(@), !.next = Last(p.scanners)]

RECURSIVE pushReversed(_, _)
pushReversed(p, seqs) ==
    IF seqs = <<>> THEN p
    ELSE pushReversed(pushScanner(p, Last(seqs)), Front(seqs))

seqScanner(p, seqs) == popScanner(pushReversed(p, seqs))

record(p, offset) == [p EXCEPT !.mark = p.pos + offset]

slice(p, offset) ==
    IF p.mark < 0 \/ p.mark > p.pos + offset \/ p.pos + offset > Len(p.input)
    THEN [p |-> panic(p, RuntimeError("slice bounds out of range")), s |-> <<>>]
    ELSE [p |-> [p EXCEPT !.mark = -1],
          s |-> SubSeq(p.input, p.mark + 1, p.pos + offset)]

stepN(p, n) == [p EXCEPT !.pos = @ + n, !.backups = Append(@, n)]

unread(p) ==
    IF Panicking(p) THEN p
    ELSE IF p.backups = <<>> THEN panic(p, RuntimeError("index out of range"))
    ELSE [p EXCEPT !.pos = @ - Last(p.backups), !.backups = Front(@)]

clearBackups(p) == [p EXCEPT !.backups = <<>>]

errorf(p, msg) == ParseError(p.line, p.pos, msg)

errorScanner(p, msg) ==
    IF Panicking(p) THEN p ELSE [p EXCEPT !.err = errorf(p, msg), !.next = Nil]

setError(p, msg) ==
    IF Panicking(p) THEN p
    ELSE [p EXCEPT !.err = ParseError(p.line, p.pos, msg), !.next = Nil]

(***************************************************************************)
(* Reading the input                                                       *)
(***************************************************************************)

HighBytes == {ByteTok(n) : n \in 128..255}
ByteVal(b) == CHOOSE n \in 128..255 : ByteTok(n) = b

RuneError == "RuneError"

\* A rune above 0x7f is the concatenation of the tokens of its bytes.
\* utf8.DecodeRuneInString: the rune and its width in bytes.
DecodeRuneInString(s) ==
    IF s = <<>> THEN [r |-> RuneError, n |-> 0]
    ELSE IF s[1] \notin HighBytes THEN [r |-> s[1], n |-> 1]
    ELSE LET b0 == ByteVal(s[1])
             hi(i) == Len(s) >= i /\ s[i] \in HighBytes
             b(i) == ByteVal(s[i])
             lo2 == IF b0 = 224 THEN 160 ELSE 128
             hi2 == IF b0 = 237 THEN 159 ELSE 191
             lo3 == IF b0 = 240 THEN 144 ELSE 128
             hi3 == IF b0 = 244 THEN 143 ELSE 191
         IN  IF b0 \in 194..223
             THEN IF hi(2) /\ b(2) \in 128..191
                  THEN [r |-> s[1] \o s[2], n |-> 2]
                  ELSE [r |-> RuneError, n |-> 1]
             ELSE IF b0 \in 224..239
             THEN IF hi(2) /\ b(2) \in lo2..hi2 /\ hi(3) /\ b(3) \in 128..191
                  THEN [r |-> IF SubSeq(s, 1, 3) = <<ByteTok(239), ByteTok(191), ByteTok(189)>>
                              THEN RuneError ELSE s[1] \o s[2] \o s[3],
                        n |-> 3]
                  ELSE [r |-> RuneError, n |-> 1]
             ELSE IF b0 \in 240..244
             THEN IF /\ hi(2) /\ b(2) \in lo3..hi3
                     /\ hi(3) /\ b(3) \in 128..191
                     /\ hi(4) /\ b(4) \in 128..191
                  THEN [r |-> s[1] \o s[2] \o s[3] \o s[4], n |-> 4]
                  ELSE [r |-> RuneError, n |-> 1]
             ELSE [r |-> RuneError, n |-> 1]

Rest(p) == SubSeq(p.input, p.pos + 1, Len(p.input))

readRune(p) ==
    LET decoded(d) ==
            IF d.r = RuneError /\ d.n = 1
            THEN [p |-> panic(p, errorf(p, "invalid utf8 rune %#.4x")), r |-> d.r, n |-> d.n]
            ELSE [p |-> stepN(p, d.n),
                  r |-> IF d.r = RuneError /\ d.n = 0 THEN eof ELSE d.r,
                  n |-> d.n]
    IN  decoded(DecodeRuneInString(Rest(p)))

peekRune(p) ==
    LET read(a) == [p |-> unread(a.p), r |-> a.r, n |-> a.n] IN read(readRune(p))

readByte(p) ==
    IF p.pos >= Len(p.input)
    THEN [p |-> stepN(p, 0), r |-> eof]
    ELSE [p |-> stepN(p, 1), r |-> p.input[p.pos + 1]]

peekByte(p) == IF p.pos >= Len(p.input) THEN eof ELSE p.input[p.pos + 1]

tryReadByte(p, r) ==
    IF peekByte(p) = r THEN [p |-> stepN(p, 1), ok |-> TRUE]
    ELSE [p |-> p, ok |-> FALSE]

tryReadPrefix(p, str) ==
    IF HasPrefix(Rest(p), str) THEN [p |-> stepN(p, Len(str)), ok |-> TRUE]
    ELSE [p |-> p, ok |-> FALSE]

skipNewline(p, r) ==
    CASE r = "\r" -> [p |-> [tryReadByte(p, "\n").p EXCEPT !.line = @ + 1], ok |-> TRUE]
      [] r = "\n" -> [p |-> [p EXCEPT !.line = @ + 1], ok |-> TRUE]
      [] OTHER -> [p |-> p, ok |-> FALSE]

tryReadNewline(p) ==
    LET a == readByte(p)
        n == skipNewline(a.p, a.r)
    IN  IF n.ok THEN [p |-> n.p, ok |-> TRUE]
        ELSE [p |-> unread(a.p), ok |-> FALSE]

expectRune(p, r) ==
    LET got(q) ==
            IF Panicking(q) THEN q
            ELSE [q EXCEPT !.err = ParseError(q.line, q.pos, "expect %q, got %s"),
                           !.next = Nil]
    IN  got(peekRune(unread(p)).p)

expectStr(p, str) ==
    LET got(q) ==
            IF Panicking(q) THEN q
            ELSE [q EXCEPT !.err = ParseError(q.line, q.pos, "expect %s, got %s"),
                           !.next = Nil]
    IN  got(peekRune(unread(p)).p)

(***************************************************************************)
(* Key paths                                                               *)
(***************************************************************************)

\* strconv.Quote on one byte of a Go string: the escapes of Go for the quote,
\* the backslash and the control characters, \x and two hexadecimal digits
\* for the other control characters and for 0x7f; the bytes of the runes
\* above 0x7f, which are printable ones here, are kept.
QuoteRune(c) ==
    CASE c = "\"" -> Chars("\\\"")
      [] c = "\\" -> Chars("\\\\")
      [] c = "\n" -> Chars("\\n")
      [] c = "\r" -> Chars("\\r")
      [] c = "\t" -> Chars("\\t")
      [] c = "\f" -> Chars("\\f")
      [] c = CharOf(7) -> Chars("\\a")
      [] c = CharOf(8) -> Chars("\\b")
      [] c = CharOf(11) -> Chars("\\v")
      [] c \in {CharOf(n) : n \in (0..31) \cup {127}} ->
            LET n == CodePoint(c)
                hex == Chars("0123456789abcdef")
            IN  <<"\\", "x", hex[(n \div 16) + 1], hex[(n % 16) + 1]>>
      [] OTHER -> <<c>>

Quote(s) == <<"\"">> \o Concat([i \in DOMAIN s |-> QuoteRune(s[i])]) \o <<"\"">>

normalizeKey(key) ==
    IF \E i \in DOMAIN key : ~isBareKeyChar(key[i]) THEN Quote(key) ELSE key

combineKeyPath(path, key) ==
    IF path = <<>> THEN normalizeKey(key)
    ELSE path \o <<".">> \o normalizeKey(key)

\* The decimal digits of a natural number.
RECURSIVE Itoa(_)
Itoa(n) ==
    IF n < 10 THEN <<Chars("0123456789")[n + 1]>>
    ELSE Itoa(n \div 10) \o <<Chars("0123456789")[(n % 10) + 1]>>

combineIndexPath(path, i) == path \o <<"[">> \o Itoa(i) \o <<"]">>

(***************************************************************************)
(* Keys, values and environments                                           *)
(***************************************************************************)

topEnv(p) == Last(p.envs)

\* pushTableKey without the test for a key that is already present.
pushTableKeyUnchecked(p, key) ==
    IF Panicking(p) THEN p ELSE popScanner([p EXCEPT !.keys = Append(@, key)])

pushTableKey(p, key) ==
    LET env == topEnv(p).env
    IN  IF Panicking(p) THEN p
        ELSE IF p.heap[env].kind # "table"
        THEN panic(p, RuntimeError("interface conversion"))
        ELSE IF key \in DOMAIN p.heap[env].Elems
        THEN errorScanner(p, "table %s has key %s defined as %s")
        ELSE popScanner([p EXCEPT !.keys = Append(@, key)])

topTableKey(p) == Last(p.keys)

\* popTableKey that pops the key pushed first.
popTableKeyFirst(p) ==
    IF p.keys = <<>>
    THEN [p |-> panic(p, RuntimeError("index out of range")), key |-> <<>>]
    ELSE [p |-> [p EXCEPT !.keys = Tail(@)], key |-> Head(p.keys)]

popTableKey(p) ==
    IF p.keys = <<>>
    THEN [p |-> panic(p, RuntimeError("index out of range")), key |-> <<>>]
    ELSE [p |-> [p EXCEPT !.keys = Front(@)], key |-> Last(p.keys)]

\* setValue without the test of the type of an array's element.
setValueUntyped(p, value) ==
    LET env == topEnv(p).env
        k == popTableKey(p)
    IN  IF Panicking(p) THEN p
        ELSE IF p.heap[env].kind = "array"
        THEN popScanner([p EXCEPT !.heap[env].Elems = Append(@, value)])
        ELSE IF Panicking(k.p) THEN k.p
        ELSE popScanner([k.p EXCEPT !.heap[env].Elems = MapSet(@, k.key, value)])

setValue(p, value) ==
    LET env == topEnv(p).env
        obj == p.heap[env]
    IN  IF Panicking(p) THEN p
        ELSE IF obj.kind = "array"
        THEN IF Len(obj.Elems) # 0 /\ obj.Elems[1].type # value.type
             THEN errorScanner(p, "array %s expects element type %s, but got %s")
             ELSE popScanner([p EXCEPT !.heap[env].Elems = Append(@, value)])
        ELSE LET k == popTableKey(p)
             IN  IF Panicking(k.p) THEN k.p
                 ELSE popScanner([k.p EXCEPT !.heap[env].Elems = MapSet(@, k.key, value)])

resetEnv(p, env, path) ==
    IF Panicking(p) THEN p
    ELSE [p EXCEPT !.envs = <<[env |-> env, path |-> path]>>]

\* The address the next allocation gets.
NewAddr(p) == Len(p.heap) + 1
alloc(p, obj) == [p EXCEPT !.heap = Append(@, obj)]

pushEnv(p, new) ==
    LET top == topEnv(p)
        obj == p.heap[top.env]
    IN  IF obj.kind = "table" /\ p.keys = <<>>
        THEN panic(p, RuntimeError("index out of range"))
        ELSE LET path == IF obj.kind = "table"
                         THEN combineKeyPath(top.path, topTableKey(p))
                         ELSE combineIndexPath(top.path, Len(obj.Elems))
             IN  [p EXCEPT !.envs = Append(@, [env |-> new, path |-> path])]

\* popEnv that leaves the entry on the stack.
popEnvKeep(p) ==
    IF p.envs = <<>>
    THEN [p |-> panic(p, RuntimeError("index out of range")), env |-> 0]
    ELSE [p |-> p, env |-> Last(p.envs).env]

popEnv(p) ==
    IF p.envs = <<>>
    THEN [p |-> panic(p, RuntimeError("index out of range")), env |-> 0]
    ELSE [p |-> [p EXCEPT !.envs = Front(@)], env |-> Last(p.envs).env]

(***************************************************************************)
(* Scanner functions.  Each takes the parser and returns it with next set  *)
(* to the scanner it returns.                                              *)
(***************************************************************************)

scanByte(p, r) ==
    LET a == readByte(p)
    IN  IF a.r # r THEN expectRune(a.p, r) ELSE popScanner(a.p)

scanDigit(p) ==
    LET a == readByte(p)
    IN  IF ~isDigit(a.r) THEN expectStr(a.p, "digit") ELSE popScanner(a.p)

\* pred(p, r) returns the parser and the verdict; self names the scanner.
scanConsumeByte(p, pred(_, _), self) ==
    LET a == readByte(p)
        v == pred(a.p, a.r)
    IN  IF ~v.ok THEN popScanner(unread(v.p)) ELSE Return(v.p, self)

scanColon(p) == scanByte(p, ":")
scanHash(p) == scanByte(p, "-")

scanRecord(p, offset) == popScanner(record(p, offset))

scanRecord0(p) == scanRecord(p, 0)

strPush(p, str) ==
    IF str # <<>> THEN [p EXCEPT !.str.parts = Append(@, str)] ELSE p

strJoin(p) == [p |-> [p EXCEPT !.str.parts = <<>>], s |-> Concat(p.str.parts)]

scanReturnString(p, s) == popScanner(strPush(p, s))

\* The value of a hexadecimal digit; -1 for the letters g to z, which isHex
\* lets through and strconv.ParseUint rejects.
HexDigitVal(c) ==
    IF isDigit(c) THEN CodePoint(c) - 48
    ELSE IF c \in Range(Chars("abcdef")) THEN CodePoint(c) - 87
    ELSE IF c \in Range(Chars("ABCDEF")) THEN CodePoint(c) - 55
    ELSE -1

RECURSIVE HexVal(_)
HexVal(s) == IF s = <<>> THEN 0 ELSE (HexVal(Front(s)) * 16) + HexDigitVal(Last(s))

\* utf8.ValidRune
ValidRune(r) == (0 <= r /\ r < 55296) \/ (57343 < r /\ r <= 1114111)

\* string(r): the UTF-8 encoding of a valid rune.
EncodeRune(r) ==
    IF r < 128 THEN <<CharOf(r)>>
    ELSE IF r < 2048 THEN <<ByteTok(192 + (r \div 64)), ByteTok(128 + (r % 64))>>
    ELSE IF r < 65536
    THEN <<ByteTok(224 + (r \div 4096)), ByteTok(128 + ((r \div 64) % 64)),
           ByteTok(128 + (r % 64))>>
    ELSE <<ByteTok(240 + (r \div 262144)), ByteTok(128 + ((r \div 4096) % 64)),
           ByteTok(128 + ((r \div 64) % 64)), ByteTok(128 + (r % 64))>>

RECURSIVE readHex(_, _)
\* The loop of scanUnicodeRune: ok is FALSE when a byte is no isHex digit.
readHex(p, n) ==
    IF n = 0 THEN [p |-> p, ok |-> TRUE]
    ELSE LET a == readByte(p)
         IN  IF ~isHex(a.r) THEN [p |-> a.p, ok |-> FALSE] ELSE readHex(a.p, n - 1)

scanUnicodeRune(p, n) ==
    LET h == readHex(record(p, 0), n)
        sl == slice(h.p, 0)
        s == sl.s
        \* rune(codepoint): eight digits that do not start with 00 give a
        \* value above 0x10ffff or, truncated to 32 bits, a negative one.
        big == Len(s) = 8 /\ SubSeq(s, 1, 2) # <<"0", "0">>
        r == IF big THEN -1 ELSE HexVal(s)
    IN  IF ~h.ok THEN expectStr(h.p, "hexadecimal digit")
        ELSE IF \E i \in DOMAIN s : HexDigitVal(s[i]) < 0
        THEN setError(sl.p, "strconv.ParseUint: invalid syntax")
        ELSE IF ~ValidRune(r) THEN errorScanner(sl.p, "%s is not a valid utf8 rune")
        ELSE scanReturnString(sl.p, EncodeRune(r))

scanEscapedRune(p) ==
    LET a == readByte(p)
        r == a.r
    IN  CASE r = "b" -> scanReturnString(a.p, <<CharOf(8)>>)
          [] r = "t" -> scanReturnString(a.p, <<"\t">>)
          [] r = "n" -> scanReturnString(a.p, <<"\n">>)
          [] r = "f" -> scanReturnString(a.p, <<"\f">>)
          [] r = "r" -> scanReturnString(a.p, <<"\r">>)
          [] r = "\"" -> scanReturnString(a.p, <<"\"">>)
          [] r = "\\" -> scanReturnString(a.p, <<"\\">>)
          [] r = "u" -> scanUnicodeRune(a.p, 4)
          [] r = "U" -> scanUnicodeRune(a.p, 8)
          [] OTHER -> expectStr(a.p, "escaped sequence")

\* p.str.push(p.slice(offset))
pushSlice(p, offset) == LET sl == slice(p, offset) IN strPush(sl.p, sl.s)

scanLiteral(p) ==
    LET a == readRune(p)
        r == a.r
    IN  IF Panicking(a.p) THEN a.p
        ELSE CASE r = "'" -> popScanner(pushSlice(a.p, -1))
          [] r \in {"\r", "\n"} -> errorScanner(a.p, "newline is not allowed in oneline string")
          [] r = eof -> errorScanner(a.p, "string without ending")
          [] OTHER -> Return(a.p, "scanLiteral")

scanMultiLineLiteral(p) ==
    LET a == readRune(p)
        r == a.r
        t == tryReadPrefix(a.p, <<"'", "'">>)
    IN  IF Panicking(a.p) THEN a.p
        ELSE IF r = eof THEN errorScanner(a.p, "no ending for multi-line literal string")
        ELSE IF r = "'" /\ t.ok THEN popScanner(pushSlice(t.p, -3))
        ELSE Return(a.p, "scanMultiLineLiteral")

\* The predicate scanMultiLineString hands to scanConsumeByte.
isSpaceOrNewline(p, r) ==
    IF isSpace(r) THEN [p |-> p, ok |-> TRUE] ELSE skipNewline(p, r)

scanConsumeSpaceOrNewline(p) ==
    scanConsumeByte(p, isSpaceOrNewline, "scanConsumeSpaceOrNewline")

scanMultiLineString(p) ==
    LET a == readRune(p)
        r == a.r
        q == pushSlice(a.p, -1)
        nl == tryReadNewline(q)
        t == tryReadPrefix(a.p, <<"\"", "\"">>)
    IN  IF Panicking(a.p) THEN a.p
        ELSE IF r = "\\"
        THEN IF nl.ok
             THEN seqScanner(nl.p, <<"scanConsumeSpaceOrNewline", "scanRecord0", "scanMultiLineString">>)
             ELSE seqScanner(nl.p, <<"scanEscapedRune", "scanRecord0", "scanMultiLineString">>)
        ELSE IF r = eof THEN errorScanner(a.p, "multi-line basic string without ending")
        ELSE IF r = "\"" /\ t.ok THEN popScanner(pushSlice(t.p, -3))
        ELSE Return(a.p, "scanMultiLineString")

scanComment(p) ==
    LET a == readRune(p)
        n == skipNewline(a.p, a.r)
    IN  IF Panicking(a.p) THEN a.p
        ELSE IF a.r = eof THEN popScanner(a.p)
        ELSE IF n.ok THEN popScanner(n.p)
        ELSE Return(a.p, "scanComment")

scanString(p) ==
    LET a == readRune(p)
        r == a.r
    IN  IF Panicking(a.p) THEN a.p
        ELSE CASE r = "\"" -> popScanner(pushSlice(a.p, -1))
          [] r = "\\" -> seqScanner(pushSlice(a.p, -1), <<"scanEscapedRune", "scanRecord0", "scanString">>)
          [] r \in {"\r", "\n"} -> errorScanner(a.p, "newline is not allowed in oneline string")
          [] r = eof -> errorScanner(a.p, "string without ending")
          [] OTHER -> Return(a.p, "scanString")

(***************************************************************************)
(* Header resolution                                                       *)
(***************************************************************************)

\* locateTable that goes into the first element of an array of tables.
RECURSIVE locateFromFirst(_, _, _, _)
locateFromFirst(p, t, path0, names) ==
    IF names = <<>> THEN [p |-> p, t |-> t, path |-> path0]
    ELSE LET name == Head(names)
             path == combineKeyPath(path0, name)
             elems == p.heap[t].Elems
         IN  IF name \notin DOMAIN elems
             THEN LET ti == NewAddr(p)
                      q == [alloc(p, NewTable(TRUE)) EXCEPT
                              !.heap[t].Elems = MapSet(@, name, TablePtr(ti))]
                  IN  locateFromFirst(q, ti, path, Tail(names))
             ELSE LET v == elems[name]
                  IN  CASE v.type = "table" -> locateFromFirst(p, v.v, path, Tail(names))
                        [] v.type = "array" ->
                             IF p.heap[v.v].Closed
                             THEN [p |-> panic(p, errorf(p, "%s was defined as array")),
                                   t |-> 0, path |-> path]
                             ELSE locateFromFirst(p, p.heap[v.v].Elems[1].v,
                                                  combineIndexPath(path, 0), Tail(names))
                        [] OTHER -> [p |-> panic(p, errorf(p, "%s was defined as %s")),
                                     t |-> 0, path |-> path]

\* The loop of locateTable from table t on: the table the names lead to and
\* its path.  A panic leaves the tables created so far in place.
RECURSIVE locateFrom(_, _, _, _)
locateFrom(p, t, path0, names) ==
    IF names = <<>> THEN [p |-> p, t |-> t, path |-> path0]
    ELSE LET name == Head(names)
             path == combineKeyPath(path0, name)
             elems == p.heap[t].Elems
         IN  IF name \notin DOMAIN elems
             THEN LET ti == NewAddr(p)
                      q == [alloc(p, NewTable(TRUE)) EXCEPT
                              !.heap[t].Elems = MapSet(@, name, TablePtr(ti))]
                  IN  locateFrom(q, ti, path, Tail(names))
             ELSE LET v == elems[name]
                  IN  CASE v.type = "table" -> locateFrom(p, v.v, path, Tail(names))
                        [] v.type = "array" ->
                             IF p.heap[v.v].Closed
                             THEN [p |-> panic(p, errorf(p, "%s was defined as array")),
                                   t |-> 0, path |-> path]
                             ELSE LET arr == p.heap[v.v].Elems
                                      i == Len(arr) - 1
                                  IN  IF i < 0
                                      THEN [p |-> panic(p, RuntimeError("index out of range")),
                                            t |-> 0, path |-> path]
                                      ELSE IF arr[i + 1].type # "table"
                                      THEN [p |-> panic(p, RuntimeError("interface conversion")),
                                            t |-> 0, path |-> path]
                                      ELSE locateFrom(p, arr[i + 1].v,
                                                      combineIndexPath(path, i), Tail(names))
                        [] OTHER -> [p |-> panic(p, errorf(p, "%s was defined as %s")),
                                     t |-> 0, path |-> path]

locateTable(p, names) == locateFrom(p, Root, <<>>, names)

\* createTable that takes a table defined before for the table of the header.
createTableAgain(p, env, path0, name) ==
    LET path == combineKeyPath(path0, name)
        elems == p.heap[env].Elems
        t == NewAddr(p)
    IN  IF name \notin DOMAIN elems
        THEN [p |-> [alloc(p, NewTable(FALSE)) EXCEPT
                       !.heap[env].Elems = MapSet(@, name, TablePtr(t))],
              t |-> t, path |-> path]
        ELSE IF elems[name].type = "table"
        THEN [p |-> [p EXCEPT !.heap[elems[name].v].Implicit = FALSE],
              t |-> elems[name].v, path |-> path]
        ELSE [p |-> panic(p, errorf(p, "%s was defined as %s")), t |-> 0, path |-> path]

\* createTable that leaves the Implicit flag of an implicit table set.
createTableKeepImplicit(p, env, path0, name) ==
    LET path == combineKeyPath(path0, name)
        elems == p.heap[env].Elems
        t == NewAddr(p)
    IN  IF name \notin DOMAIN elems
        THEN [p |-> [alloc(p, NewTable(FALSE)) EXCEPT
                       !.heap[env].Elems = MapSet(@, name, TablePtr(t))],
              t |-> t, path |-> path]
        ELSE IF elems[name].type = "table"
        THEN IF ~p.heap[elems[name].v].Implicit
             THEN [p |-> panic(p, errorf(p, "table %s was defined twice")),
                   t |-> 0, path |-> path]
             ELSE [p |-> p, t |-> elems[name].v, path |-> path]
        ELSE [p |-> panic(p, errorf(p, "%s was defined as %s")), t |-> 0, path |-> path]

createTable(p, env, path0, name) ==
    LET path == combineKeyPath(path0, name)
        elems == p.heap[env].Elems
    IN  IF name \notin DOMAIN elems
        THEN LET t == NewAddr(p)
             IN  [p |-> [alloc(p, NewTable(FALSE)) EXCEPT
                           !.heap[env].Elems = MapSet(@, name, TablePtr(t))],
                  t |-> t, path |-> path]
        ELSE LET v == elems[name]
             IN  IF v.type = "table"
                 THEN IF ~p.heap[v.v].Implicit
                      THEN [p |-> panic(p, errorf(p, "table %s was defined twice")),
                            t |-> 0, path |-> path]
                      ELSE [p |-> [p EXCEPT !.heap[v.v].Implicit = FALSE],
                            t |-> v.v, path |-> path]
                 ELSE [p |-> panic(p, errorf(p, "%s was defined as %s")),
                       t |-> 0, path |-> path]

\* createTableArray that appends to a closed array as to an open one.
createTableArrayClosed(p, env, path0, name) ==
    LET path == combineKeyPath(path0, name)
        elems == p.heap[env].Elems
        t == NewAddr(p)
        q == alloc(p, NewTable(FALSE))
    IN  IF name \notin DOMAIN elems
        THEN [p |-> [alloc(q, NewArray(FALSE, <<TablePtr(t)>>)) EXCEPT
                       !.heap[env].Elems = MapSet(@, name, ArrayPtr(NewAddr(q)))],
              t |-> t, path |-> path]
        ELSE IF elems[name].type = "array"
        THEN [p |-> [q EXCEPT !.heap[elems[name].v].Elems = Append(@, TablePtr(t))],
              t |-> t, path |-> path]
        ELSE [p |-> panic(q, errorf(p, "%s was defined as %s")), t |-> 0, path |-> path]

\* createTableArray that puts the new table before the elements of the array.
createTableArrayFront(p, env, path0, name) ==
    LET path == combineKeyPath(path0, name)
        elems == p.heap[env].Elems
        t == NewAddr(p)
        q == alloc(p, NewTable(FALSE))
    IN  IF name \notin DOMAIN elems
        THEN [p |-> [alloc(q, NewArray(FALSE, <<TablePtr(t)>>)) EXCEPT
                       !.heap[env].Elems = MapSet(@, name, ArrayPtr(NewAddr(q)))],
              t |-> t, path |-> path]
        ELSE IF elems[name].type = "array" /\ ~p.heap[elems[name].v].Closed
        THEN [p |-> [q EXCEPT !.heap[elems[name].v].Elems = <<TablePtr(t)>> \o @],
              t |-> t, path |-> path]
        ELSE [p |-> panic(q, errorf(p, "%s was defined as %s")), t |-> 0, path |-> path]

createTableArray(p, env, path0, name) ==
    LET path == combineKeyPath(path0, name)
        elems == p.heap[env].Elems
        t == NewAddr(p)
        q == alloc(p, NewTable(FALSE))
    IN  IF name \notin DOMAIN elems
        THEN [p |-> [alloc(q, NewArray(FALSE, <<TablePtr(t)>>)) EXCEPT
                       !.heap[env].Elems = MapSet(@, name, ArrayPtr(NewAddr(q)))],
              t |-> t, path |-> path]
        ELSE LET v == elems[name]
             IN  IF v.type = "array"
                 THEN IF p.heap[v.v].Closed
                      THEN [p |-> panic(q, errorf(p, "%s was defined as array")),
                            t |-> 0, path |-> path]
                      ELSE [p |-> [q EXCEPT !.heap[v.v].Elems = Append(@, TablePtr(t))],
                            t |-> t, path |-> path]
                 ELSE [p |-> panic(q, errorf(p, "%s was defined as %s")),
                       t |-> 0, path |-> path]

(***************************************************************************)
(* Table headers                                                           *)
(***************************************************************************)

scanArrayTableEnd(p) ==
    LET i == Len(p.names) - 1
        created(c) ==
            IF Panicking(c.p) THEN c.p
            ELSE Return(resetEnv(c.p, c.t, c.path), "scanTopEnd")
        located(l) ==
            IF Panicking(l.p) THEN l.p
            ELSE created(createTableArray(l.p, l.t, l.path, p.names[i + 1]))
    IN  IF i < 0 THEN panic(p, RuntimeError("slice bounds out of range"))
        ELSE located(locateTable(p, SubSeq(p.names, 1, i)))

scanTableEnd(p) ==
    LET i == Len(p.names) - 1
        created(c) ==
            IF Panicking(c.p) THEN c.p
            ELSE Return(resetEnv(c.p, c.t, c.path), "scanTopEnd")
        located(l) ==
            IF Panicking(l.p) THEN l.p
            ELSE created(createTable(l.p, l.t, l.path, p.names[i + 1]))
    IN  IF i < 0 THEN panic(p, RuntimeError("slice bounds out of range"))
        ELSE located(locateTable(p, SubSeq(p.names, 1, i)))

scanTableStart(p) ==
    LET q == [p EXCEPT !.names = <<>>]
        t == tryReadByte(q, "[")
    IN  IF t.ok
        THEN seqScanner(t.p, <<"scanTableNameStart", "scanByteRBracket", "scanArrayTableEnd">>)
        ELSE seqScanner(t.p, <<"scanTableNameStart", "scanTableEnd">>)

\* The scanByte(']') of scanTableStart.
scanByteRBracket(p) == scanByte(p, "]")

appendTableName(p, name) == [p EXCEPT !.names = Append(@, name)]

\* p.appendTableName(p.slice(offset))
appendSlice(p, offset) == LET sl == slice(p, offset) IN appendTableName(sl.p, sl.s)

scanTableNameString(p) ==
    LET j == strJoin(p) IN Return(appendTableName(j.p, j.s), "scanTableNameEnd")

scanTableNameStart(p) ==
    LET a == readByte(p)
        r == a.r
    IN  IF isSpace(r) THEN Return(a.p, "scanTableNameStart")
        ELSE IF r = "." \/ r = "]" THEN errorScanner(a.p, "table name must be non-empty")
        ELSE IF r = "\"" THEN seqScanner(a.p, <<"scanRecord0", "scanString", "scanTableNameString">>)
        ELSE IF isBareKeyChar(r) THEN Return(record(a.p, -1), "scanTableNameInside")
        ELSE expectStr(a.p, "table name")

scanTableNameInside(p) ==
    LET a == readByte(p)
        r == a.r
    IN  IF isSpace(r) THEN Return(appendSlice(a.p, -1), "scanTableNameEnd")
        ELSE IF isBareKeyChar(r) THEN Return(a.p, "scanTableNameInside")
        ELSE IF r = "." THEN Return(appendSlice(a.p, -1), "scanTableNameStart")
        ELSE IF r = "]" THEN popScanner(appendSlice(a.p, -1))
        ELSE expectStr(a.p, "bare character")

scanTableNameEnd(p) ==
    LET a == readByte(p)
        r == a.r
    IN  IF isSpace(r) THEN Return(a.p, "scanTableNameEnd")
        ELSE IF r = "." THEN Return(a.p, "scanTableNameStart")
        ELSE IF r = "]" THEN popScanner(a.p)
        ELSE expectStr(a.p, "'.' or ']'")

(***************************************************************************)
(* Top level, inline tables                                                *)
(***************************************************************************)

scanTop(p) ==
    LET a == readByte(p)
        r == a.r
        n == skipNewline(a.p, r)
    IN  IF isSpace(r) THEN Return(a.p, "scanTop")
        ELSE IF n.ok THEN Return(n.p, "scanTop")
        ELSE IF r = "#" THEN seqScanner(a.p, <<"scanComment", "scanTop">>)
        ELSE IF r = "[" THEN Return(a.p, "scanTableStart")
        ELSE IF r = eof THEN Return(a.p, Nil)
        ELSE seqScanner(unread(a.p), <<"scanTableField", "scanTopEnd">>)

\* scanTopEnd that stays in scanTopEnd at the end of the input.
scanTopEndStay(p) ==
    LET a == readByte(p)
        r == a.r
        n == skipNewline(a.p, r)
    IN  IF r = eof THEN Return(a.p, "scanTopEnd")
        ELSE IF n.ok THEN Return(n.p, "scanTop")
        ELSE IF isSpace(r) THEN Return(a.p, "scanTopEnd")
        ELSE IF r = "#" THEN seqScanner(a.p, <<"scanComment", "scanTop">>)
        ELSE expectStr(a.p, "new line, comment or EOF")

scanTopEnd(p) ==
    LET a == readByte(p)
        r == a.r
        n == skipNewline(a.p, r)
    IN  IF r = eof THEN Return(a.p, "scanTop")
        ELSE IF n.ok THEN Return(n.p, "scanTop")
        ELSE IF isSpace(r) THEN Return(a.p, "scanTopEnd")
        ELSE IF r = "#" THEN seqScanner(a.p, <<"scanComment", "scanTop">>)
        ELSE expectStr(a.p, "new line, comment or EOF")

\* The interface value of the environment at address a.
EnvValue(p, a) == IF p.heap[a].kind = "table" THEN TablePtr(a) ELSE ArrayPtr(a)

scanInlineTableFieldEnd(p) ==
    LET a == readByte(p)
        r == a.r
        e == popEnv(a.p)
    IN  IF isSpace(r) THEN Return(a.p, "scanInlineTableFieldEnd")
        ELSE IF r = "," THEN seqScanner(a.p, <<"scanTableField", "scanInlineTableFieldEnd">>)
        ELSE IF r = "}"
        THEN IF Panicking(e.p) THEN e.p ELSE setValue(e.p, EnvValue(e.p, e.env))
        ELSE expectStr(a.p, "inline table separator ',' or terminator '}'")

scanInlineTableStart(p) ==
    LET a == readByte(p)
        r == a.r
        n == skipNewline(a.p, r)
        t == NewAddr(a.p)
    IN  IF n.ok THEN errorScanner(n.p, "newlines are not allowed in inline table")
        ELSE IF isSpace(r) THEN Return(a.p, "scanInlineTableStart")
        ELSE IF r = "," THEN errorScanner(a.p, "unexpected ',' in inline table")
        ELSE IF r = "}" THEN setValue(alloc(a.p, NewTable(FALSE)), TablePtr(t))
        ELSE LET u == unread(a.p)
                 q == pushEnv(alloc(u, NewTable(FALSE)), NewAddr(u))
             IN  seqScanner(q, <<"scanTableField", "scanInlineTableFieldEnd">>)

(***************************************************************************)
(* Numbers.  An Integer is its sign and its decimal magnitude without      *)
(* leading zeros, so that all 64 bits are kept; a Float is the decimal     *)
(* it denotes, neg * 0.mant * 10^dp with mant free of leading and trailing *)
(* zeros, which determines a binary64 value up to 15 significant digits.   *)
(***************************************************************************)

DigitVal(c) == CodePoint(c) - 48

RECURSIVE Atoi(_)
Atoi(s) == IF s = <<>> THEN 0 ELSE (Atoi(Front(s)) * 10) + DigitVal(Last(s))

RECURSIVE TrimLeft0(_)
TrimLeft0(s) == IF s # <<>> /\ Head(s) = "0" THEN TrimLeft0(Tail(s)) ELSE s

RECURSIVE TrimRight0(_)
TrimRight0(s) == IF s # <<>> /\ Last(s) = "0" THEN TrimRight0(Front(s)) ELSE s

\* Whether digit string a denotes a larger number than b, of the same length.
RECURSIVE DigitsGreater(_, _)
DigitsGreater(a, b) ==
    IF a = <<>> THEN FALSE
    ELSE IF Head(a) # Head(b) THEN DigitVal(Head(a)) > DigitVal(Head(b))
    ELSE DigitsGreater(Tail(a), Tail(b))

MaxInt64 == Chars("9223372036854775807")
MinInt64Mag == Chars("9223372036854775808")

\* ParseInt giving the end of the range for a value beyond it, and no error.
ParseIntSaturating(s) ==
    LET neg == s # <<>> /\ Head(s) = "-"
        signed == s # <<>> /\ Head(s) \in {"+", "-"}
        digits == IF signed THEN Tail(s) ELSE s
        mag0 == TrimLeft0(digits)
        mag == IF mag0 = <<>> THEN <<"0">> ELSE mag0
        limit == IF neg THEN MinInt64Mag ELSE MaxInt64
    IN  IF digits = <<>> \/ \E i \in DOMAIN digits : ~isDigit(digits[i])
        THEN [ok |-> FALSE, v |-> 0, err |-> "strconv.ParseInt: invalid syntax"]
        ELSE IF Len(mag) > 19 \/ (Len(mag) = 19 /\ DigitsGreater(mag, limit))
        THEN [ok |-> TRUE, v |-> [neg |-> neg, mag |-> limit], err |-> ""]
        ELSE [ok |-> TRUE, v |-> [neg |-> neg /\ mag # <<"0">>, mag |-> mag], err |-> ""]

\* strconv.ParseInt(s, 10, 64) on an optional sign and a run of digits.
ParseInt(s) ==
    LET neg == s # <<>> /\ Head(s) = "-"
        signed == s # <<>> /\ Head(s) \in {"+", "-"}
        digits == IF signed THEN Tail(s) ELSE s
        mag0 == TrimLeft0(digits)
        mag == IF mag0 = <<>> THEN <<"0">> ELSE mag0
        limit == IF neg THEN MinInt64Mag ELSE MaxInt64
    IN  IF digits = <<>> \/ \E i \in DOMAIN digits : ~isDigit(digits[i])
        THEN [ok |-> FALSE, v |-> 0, err |-> "strconv.ParseInt: invalid syntax"]
        ELSE IF Len(mag) > 19 \/ (Len(mag) = 19 /\ DigitsGreater(mag, limit))
        THEN [ok |-> FALSE, v |-> 0, err |-> "strconv.ParseInt: value out of range"]
        ELSE [ok |-> TRUE, v |-> [neg |-> neg /\ mag # <<"0">>, mag |-> mag], err |-> ""]

\* strconv.FormatInt(i, 10)
FormatInt(i) == (IF i.neg THEN <<"-">> ELSE <<>>) \o i.mag

\* The largest decimal exponent of a finite binary64 value (1.797...e308).
MaxFloatDp == 309

\* strconv.ParseFloat(s, 64) on sign, integer digits, fraction digits, and
\* exponent sign and digits, as numParser.join lays them out.
ParseFloat(sign, int, frac, esign, exp) ==
    LET e == IF esign = <<"-">> THEN 0 - Atoi(exp) ELSE Atoi(exp)
        lead == TrimLeft0(int \o frac)
        mant == TrimRight0(lead)
        dp == Len(int) - (Len(int \o frac) - Len(lead)) + e
    IN  IF mant = <<>>
        THEN [ok |-> TRUE, v |-> [neg |-> sign = <<"-">>, mant |-> <<>>, dp |-> 0], err |-> ""]
        ELSE IF dp > MaxFloatDp
        THEN [ok |-> FALSE, v |-> 0, err |-> "strconv.ParseFloat: value out of range"]
        ELSE [ok |-> TRUE, v |-> [neg |-> sign = <<"-">>, mant |-> mant, dp |-> dp], err |-> ""]

numReset(p) ==
    [p EXCEPT !.num = [sign |-> <<>>, e |-> <<>>, esign |-> <<>>,
                       integers |-> <<>>, fractions |-> <<>>, exponents |-> <<>>]]

pushInteger(p, part) == [p EXCEPT !.num.integers = Append(@, part)]
pushFraction(p, part) == [p EXCEPT !.num.fractions = Append(@, part)]
pushExponent(p, part) == [p EXCEPT !.num.exponents = Append(@, part)]

\* numParser.Float: the parts are joined with "" and parsed.
numFloat(p) ==
    LET n == p.num
        f == ParseFloat(n.sign, Concat(n.integers), Concat(n.fractions),
                        n.esign, Concat(n.exponents))
    IN  [p |-> numReset(p), f |-> f]

\* numParser.Integer
numInteger(p) ==
    LET s == Concat(p.num.integers)
    IN  IF s = <<>>
        THEN [p |-> panic(numReset(p), RuntimeError("index out of range")),
              i |-> [ok |-> FALSE, v |-> 0, err |-> ""]]
        ELSE IF s # <<"0">> /\ s[1] = "0"
        THEN [p |-> numReset(p), i |-> [ok |-> FALSE, v |-> 0, err |-> "leading zero in integer %q"]]
        ELSE [p |-> numReset(p), i |-> ParseInt(p.num.sign \o s)]

setFloatValue(p) ==
    LET set(n) == IF ~n.f.ok THEN setError(n.p, n.f.err) ELSE setValue(n.p, Float(n.f.v))
    IN  set(numFloat(p))

setIntegerValue(p) ==
    LET set(n) ==
            IF Panicking(n.p) THEN n.p
            ELSE IF ~n.i.ok THEN setError(n.p, n.i.err)
            ELSE setValue(n.p, Integer(n.i.v))
    IN  set(numInteger(p))

setStringValue(p) == LET j == strJoin(p) IN setValue(j.p, String(j.s))

\* p.num.pushX(p.slice(offset))
pushNum(p, offset, push(_, _)) == LET sl == slice(p, offset) IN push(sl.p, sl.s)

scanFloatFraction(p) ==
    LET a == readByte(p)
        r == a.r
    IN  IF isDigit(r) THEN Return(a.p, "scanFloatFraction")
        ELSE IF r = "_"
        THEN seqScanner(pushNum(a.p, -1, pushFraction),
                        <<"scanRecord0", "scanDigit", "scanFloatFraction">>)
        ELSE IF r = "." THEN errorScanner(a.p, "decimal point already read")
        ELSE IF r = "e" \/ r = "E"
        THEN Return(pushNum([a.p EXCEPT !.num.e = <<r>>], -1, pushFraction),
                    "scanFloatExponentSign")
        ELSE setFloatValue(pushNum(unread(a.p), 0, pushFraction))

scanFloatExponent(p) ==
    LET a == readByte(p)
        r == a.r
    IN  IF isDigit(r) THEN Return(a.p, "scanFloatExponent")
        ELSE IF r = "_"
        THEN seqScanner(pushNum(a.p, -1, pushExponent),
                        <<"scanRecord0", "scanDigit", "scanFloatExponent">>)
        ELSE setFloatValue(pushNum(unread(a.p), 0, pushExponent))

scanFloatExponentSign(p) ==
    LET a == readByte(p)
        q == IF a.r \in {"+", "-"} THEN [a.p EXCEPT !.num.esign = <<a.r>>]
             ELSE unread(a.p)
    IN  seqScanner(q, <<"scanRecord0", "scanDigit", "scanFloatExponent">>)

\* scanNumber with no digit asked for after an underscore.
scanNumberLax(p) ==
    LET a == readByte(p)
        r == a.r
    IN  IF isDigit(r) THEN Return(a.p, "scanNumber")
        ELSE IF r = "_"
        THEN seqScanner(pushNum(a.p, -1, pushInteger), <<"scanRecord0", "scanNumber">>)
        ELSE IF r = "."
        THEN seqScanner(pushNum(a.p, -1, pushInteger),
                        <<"scanRecord0", "scanDigit", "scanFloatFraction">>)
        ELSE IF r = "e" \/ r = "E"
        THEN seqScanner(pushNum([a.p EXCEPT !.num.e = <<r>>], -1, pushInteger),
                        <<"scanRecord0", "scanDigit", "scanFloatExponent">>)
        ELSE setIntegerValue(pushNum(unread(a.p), 0, pushInteger))

scanNumber(p) ==
    LET a == readByte(p)
        r == a.r
    IN  IF isDigit(r) THEN Return(a.p, "scanNumber")
        ELSE IF r = "_"
        THEN seqScanner(pushNum(a.p, -1, pushInteger),
                        <<"scanRecord0", "scanDigit", "scanNumber">>)
        ELSE IF r = "."
        THEN seqScanner(pushNum(a.p, -1, pushInteger),
                        <<"scanRecord0", "scanDigit", "scanFloatFraction">>)
        ELSE IF r = "e" \/ r = "E"
        THEN seqScanner(pushNum([a.p EXCEPT !.num.e = <<r>>], -1, pushInteger),
                        <<"scanRecord0", "scanDigit", "scanFloatExponent">>)
        ELSE setIntegerValue(pushNum(unread(a.p), 0, pushInteger))

\* scanNumberStart that does not demand a first digit.
scanNumberStartAny(p) == seqScanner(p, <<"scanRecord0", "scanNumber">>)

scanNumberStart(p) == seqScanner(p, <<"scanRecord0", "scanDigit", "scanNumber">>)

\* scanStringStart that keeps the newline after the opening quotes.
scanStringStartKeep(p) ==
    LET t == tryReadPrefix(p, <<"\"", "\"">>)
    IN  IF t.ok
        THEN seqScanner(t.p, <<"scanRecord0", "scanMultiLineString", "setStringValue">>)
        ELSE seqScanner(t.p, <<"scanRecord0", "scanString", "setStringValue">>)

scanStringStart(p) ==
    LET t == tryReadPrefix(p, <<"\"", "\"">>)
    IN  IF t.ok
        THEN seqScanner(tryReadNewline(t.p).p,
                        <<"scanRecord0", "scanMultiLineString", "setStringValue">>)
        ELSE seqScanner(t.p, <<"scanRecord0", "scanString", "setStringValue">>)

scanLiteralStart(p) ==
    LET t == tryReadPrefix(p, <<"'", "'">>)
    IN  IF t.ok
        THEN seqScanner(tryReadNewline(t.p).p,
                        <<"scanRecord0", "scanMultiLineLiteral", "setStringValue">>)
        ELSE seqScanner(t.p, <<"scanRecord0", "scanLiteral", "setStringValue">>)

(***************************************************************************)
(* Datetimes.  A Datetime is the fields time.Parse reads: date, time of    *)
(* day, the fraction without trailing zeros, and the zone offset in        *)
(* minutes east of UTC.                                                    *)
(***************************************************************************)

daysIn(month, year) ==
    IF month = 2
    THEN IF year % 4 = 0 /\ (year % 100 # 0 \/ year % 400 = 0) THEN 29 ELSE 28
    ELSE IF month \in {4, 6, 9, 11} THEN 30 ELSE 31

\* Whether the bytes of s at positions i.. are exactly n digits.
DigitsAt(s, i, n) == Len(s) >= i + n - 1 /\ \A j \in i..(i + n - 1) : isDigit(s[j])
At(s, i, c) == Len(s) >= i /\ s[i] = c

\* The zone of an RFC 3339 time: "Z", or a sign and hh:mm.
ParseZone(z) ==
    IF z = <<"Z">> THEN [ok |-> TRUE, off |-> 0]
    ELSE IF Len(z) = 6 /\ z[1] \in {"+", "-"} /\ DigitsAt(z, 2, 2) /\ z[4] = ":" /\ DigitsAt(z, 5, 2)
    THEN LET hh == Atoi(SubSeq(z, 2, 3))
             mm == Atoi(SubSeq(z, 5, 6))
             off == (hh * 60) + mm
         IN  [ok |-> hh <= 23 /\ mm <= 59, off |-> IF z[1] = "-" THEN 0 - off ELSE off]
    ELSE [ok |-> FALSE, off |-> 0]

\* time.Parse(time.RFC3339Nano, s)
ParseRFC3339(s) ==
    LET shape == /\ DigitsAt(s, 1, 4) /\ At(s, 5, "-") /\ DigitsAt(s, 6, 2)
                 /\ At(s, 8, "-") /\ DigitsAt(s, 9, 2) /\ At(s, 11, "T")
                 /\ DigitsAt(s, 12, 2) /\ At(s, 14, ":") /\ DigitsAt(s, 15, 2)
                 /\ At(s, 17, ":") /\ DigitsAt(s, 18, 2)
        year == Atoi(SubSeq(s, 1, 4))
        month == Atoi(SubSeq(s, 6, 7))
        day == Atoi(SubSeq(s, 9, 10))
        hour == Atoi(SubSeq(s, 12, 13))
        min == Atoi(SubSeq(s, 15, 16))
        sec == Atoi(SubSeq(s, 18, 19))
        \* A fraction is read only when a digit follows the period.
        hasFrac == At(s, 20, ".") /\ DigitsAt(s, 21, 1)
        fracEnd == IF hasFrac
                   THEN CHOOSE j \in 21..Len(s) :
                            /\ \A k \in 21..j : isDigit(s[k])
                            /\ (j = Len(s) \/ ~isDigit(s[j + 1]))
                   ELSE 19
        frac == IF hasFrac THEN SubSeq(s, 21, IF fracEnd > 29 THEN 29 ELSE fracEnd) ELSE <<>>
        zone == ParseZone(SubSeq(s, fracEnd + 1, Len(s)))
    IN  IF ~shape THEN [ok |-> FALSE, v |-> 0]
        ELSE IF \/ month \notin 1..12 \/ day \notin 1..daysIn(month, year)
                \/ hour > 23 \/ min > 59 \/ sec > 59 \/ ~zone.ok
        THEN [ok |-> FALSE, v |-> 0]
        ELSE [ok |-> TRUE,
              v |-> [year |-> year, month |-> month, day |-> day, hour |-> hour,
                     min |-> min, sec |-> sec, frac |-> TrimRight0(frac), off |-> zone.off]]

scanDateValue(p, suffix) ==
    LET parsed(q, t) ==
            IF ~t.ok THEN errorScanner(q, "parsing time: cannot parse")
            ELSE setValue(q, Datetime(t.v))
        sliced(sl) ==
            IF Panicking(sl.p) THEN sl.p
            ELSE parsed(sl.p, ParseRFC3339(sl.s \o suffix))
    IN  sliced(slice(p, 0))

scanDateEnd(p) == scanDateValue(p, <<>>)

scanDateTimeEnd(p) ==
    LET a == readByte(p)
        r == a.r
    IN  IF r = "Z" THEN scanDateEnd(a.p)
        ELSE IF r = "-"
        THEN seqScanner(a.p, <<"scanDigit", "scanDigit", "scanColon",
                               "scanDigit", "scanDigit", "scanDateEnd">>)
        ELSE scanDateValue(unread(a.p), <<"Z">>)

RECURSIVE readDigits(_)
\* for isDigit(p.readByte()) {}: stops after reading the first non-digit.
readDigits(p) ==
    LET a == readByte(p) IN IF isDigit(a.r) THEN readDigits(a.p) ELSE a.p

scanDateTimeFraction(p) ==
    LET a == readByte(p)
        q == IF a.r = "." THEN readDigits(a.p) ELSE a.p
    IN  Return(unread(q), "scanDateTimeEnd")

scanDateTime(p) ==
    LET a == readByte(p)
    IN  IF a.r = "T"
        THEN seqScanner(a.p, <<"scanDigit", "scanDigit", "scanColon", "scanDigit",
                               "scanDigit", "scanColon", "scanDigit", "scanDigit",
                               "scanDateTimeFraction">>)
        ELSE scanDateValue(unread(a.p), Chars("T00:00:00Z"))

scanNumberOrDate(p) ==
    LET a == readByte(p)
        r == a.r
    IN  IF r = "-"
        THEN seqScanner(a.p, <<"scanDigit", "scanDigit", "scanHash",
                               "scanDigit", "scanDigit", "scanDateTime">>)
        ELSE IF isDigit(r) THEN Return(a.p, "scanNumberOrDate")
        ELSE Return(unread(a.p), "scanNumber")

(***************************************************************************)
(* Arrays, values, fields                                                  *)
(***************************************************************************)

scanArrayValue(p) ==
    LET a == readByte(p)
        r == a.r
        n == skipNewline(a.p, r)
    IN  IF isSpace(r) THEN Return(a.p, "scanArrayValue")
        ELSE IF n.ok THEN Return(n.p, "scanArrayValue")
        ELSE IF r = "#" THEN seqScanner(a.p, <<"scanComment", "scanArrayValue">>)
        ELSE IF r = "," THEN errorScanner(a.p, "no array element before separator")
        ELSE IF r = "]" THEN popScanner(unread(a.p))
        ELSE Return(unread(a.p), "scanValue")

\* scanArrayStart that leaves the array open.
scanArrayStartOpen(p) ==
    LET q == pushEnv(alloc(p, NewArray(FALSE, <<>>)), NewAddr(p))
    IN  seqScanner(q, <<"scanArrayValue", "scanArrayEnd">>)

scanArrayStart(p) ==
    LET q == pushEnv(alloc(p, NewArray(TRUE, <<>>)), NewAddr(p))
    IN  seqScanner(q, <<"scanArrayValue", "scanArrayEnd">>)

scanArrayEnd(p) ==
    LET a == readByte(p)
        r == a.r
        e == popEnv(a.p)
    IN  IF isSpace(r) THEN Return(a.p, "scanArrayEnd")
        ELSE IF r = "#" THEN seqScanner(a.p, <<"scanComment", "scanArrayEnd">>)
        ELSE IF r = "," THEN seqScanner(a.p, <<"scanArrayValue", "scanArrayEnd">>)
        ELSE IF r = "]"
        THEN IF Panicking(e.p) THEN e.p ELSE setValue(e.p, EnvValue(e.p, e.env))
        ELSE expectStr(a.p, "',' or ']'")

scanValue(p) ==
    LET a == readByte(p)
        r == a.r
        tr == tryReadPrefix(a.p, Chars("rue"))
        fa == tryReadPrefix(a.p, Chars("alse"))
    IN  IF r = "[" THEN Return(a.p, "scanArrayStart")
        ELSE IF r = "{" THEN Return(a.p, "scanInlineTableStart")
        ELSE IF r = "t"
        THEN IF ~tr.ok THEN expectStr(tr.p, "true") ELSE setValue(tr.p, Boolean(TRUE))
        ELSE IF r = "f"
        THEN IF ~fa.ok THEN expectStr(fa.p, "false") ELSE setValue(fa.p, Boolean(FALSE))
        ELSE IF r = "\"" THEN Return(a.p, "scanStringStart")
        ELSE IF r = "'" THEN Return(a.p, "scanLiteralStart")
        ELSE IF r = "+" \/ r = "-"
        THEN Return([a.p EXCEPT !.num.sign = <<r>>], "scanNumberStart")
        ELSE IF isDigit(r) THEN Return(record(a.p, -1), "scanNumberOrDate")
        ELSE IF isSpace(r) THEN Return(a.p, "scanValue")
        ELSE expectStr(a.p, "value")

scanFieldAssign(p) ==
    LET a == readByte(p)
        r == a.r
    IN  IF isSpace(r) THEN Return(a.p, "scanFieldAssign")
        ELSE IF r = "=" THEN Return(a.p, "scanValue")
        ELSE expectRune(a.p, "=")

scanBareKey(p) ==
    LET a == readByte(p)
        r == a.r
        sl == slice(a.p, -1)
    IN  IF isBareKeyChar(r) THEN Return(a.p, "scanBareKey")
        ELSE IF isSpace(r) THEN pushTableKey(pushScanner(sl.p, "scanFieldAssign"), sl.s)
        ELSE IF r = "=" THEN pushTableKey(pushScanner(sl.p, "scanValue"), sl.s)
        ELSE expectStr(a.p, "bare character")

scanKeyEnd(p) ==
    LET j == strJoin(p) IN pushTableKey(pushScanner(j.p, "scanFieldAssign"), j.s)

scanTableField(p) ==
    LET a == readByte(p)
        r == a.r
    IN  IF isSpace(r) THEN Return(a.p, "scanTableField")
        ELSE IF isBareKeyChar(r) THEN Return(record(a.p, -1), "scanBareKey")
        ELSE IF r = "=" THEN errorScanner(a.p, "key must be non-empty")
        ELSE IF r = "\"" THEN seqScanner(a.p, <<"scanRecord0", "scanString", "scanKeyEnd">>)
        ELSE IF r = "'" THEN seqScanner(a.p, <<"scanRecord0", "scanLiteral", "scanKeyEnd">>)
        ELSE expectStr(a.p, "table field")

(***************************************************************************)
(* The emitter (encode.go).  A Go value is a record with its kind; a map   *)
(* carries, as keys, the order in which v.MapKeys() yields its keys.  The  *)
(* encodeState is the record e of the buffer and the value being panicked. *)
(***************************************************************************)

\* Two decimal digits of a number below 100.
Pad2(n) == IF n < 10 THEN <<"0">> \o Itoa(n) ELSE Itoa(n)

\* %e of strconv.FormatFloat: d.ddde+xx with prec digits after the point.
fmtE(neg, mant, dp, prec) ==
    LET d1 == IF mant = <<>> THEN <<"0">> ELSE <<mant[1]>>
        m == IF Len(mant) < prec + 1 THEN Len(mant) ELSE prec + 1
        digs == SubSeq(mant, 2, m) \o [i \in 1..(prec + 1 - (IF m < 1 THEN 1 ELSE m)) |-> "0"]
        exp == IF mant = <<>> THEN 0 ELSE dp - 1
        aexp == IF exp < 0 THEN 0 - exp ELSE exp
    IN  (IF neg THEN <<"-">> ELSE <<>>) \o d1
        \o (IF prec > 0 THEN <<".">> \o digs ELSE <<>>)
        \o <<"e">> \o (IF exp < 0 THEN <<"-">> ELSE <<"+">>)
        \o (IF aexp < 10 THEN <<"0">> \o Itoa(aexp) ELSE Itoa(aexp))

\* %f of strconv.FormatFloat with prec digits after the point.
fmtF(neg, mant, dp, prec) ==
    LET nd == Len(mant)
        m == IF nd < dp THEN nd ELSE dp
        int == IF dp > 0 THEN SubSeq(mant, 1, m) \o [i \in 1..(dp - m) |-> "0"]
               ELSE <<"0">>
        frac == [i \in 1..prec |->
                    LET j == dp + i - 1 IN IF 0 <= j /\ j < nd THEN mant[j + 1] ELSE "0"]
    IN  (IF neg THEN <<"-">> ELSE <<>>) \o int
        \o (IF prec > 0 THEN <<".">> \o frac ELSE <<>>)

\* The float64 values that are no numbers: NaN, and the infinity of a sign.
NaN == [neg |-> FALSE, mant |-> <<>>, dp |-> 0, class |-> "NaN"]
Inf(neg) == [neg |-> neg, mant |-> <<>>, dp |-> 0, class |-> "Inf"]
IsNaN(f) == "class" \in DOMAIN f /\ f.class = "NaN"
IsInf(f) == "class" \in DOMAIN f /\ f.class = "Inf"

\* strconv.FormatFloat(f, 'g', -1, 64): the shortest digits that read back f;
\* %e is used if the exponent is less than -4 or, for the shortest form, at
\* least 6.
FormatFloat(f) ==
    LET nd == Len(f.mant)
        exp == IF f.mant = <<>> THEN 0 ELSE f.dp - 1
    IN  IF IsNaN(f) THEN Chars("NaN")
        ELSE IF IsInf(f) THEN (IF f.neg THEN Chars("-Inf") ELSE Chars("+Inf"))
        ELSE IF exp < -4 \/ exp >= 6
        THEN fmtE(f.neg, f.mant, f.dp, nd - 1)
        ELSE fmtF(f.neg, f.mant, IF f.mant = <<>> THEN 0 ELSE f.dp,
                  IF nd - f.dp > 0 /\ nd > 0 THEN nd - f.dp ELSE 0)

\* Four decimal digits of a year.
Pad4(n) == [i \in 1..(4 - Len(Itoa(n))) |-> "0"] \o Itoa(n)

\* t.Format(time.RFC3339Nano)
FormatRFC3339Nano(t) ==
    LET aoff == IF t.off < 0 THEN 0 - t.off ELSE t.off
    IN  Pad4(t.year) \o <<"-">> \o Pad2(t.month) \o <<"-">> \o Pad2(t.day) \o <<"T">>
        \o Pad2(t.hour) \o <<":">> \o Pad2(t.min) \o <<":">> \o Pad2(t.sec)
        \o (IF TrimRight0(t.frac) = <<>> THEN <<>> ELSE <<".">> \o TrimRight0(t.frac))
        \o (IF t.off = 0 THEN <<"Z">>
            ELSE (IF t.off < 0 THEN <<"-">> ELSE <<"+">>)
                 \o Pad2(aoff \div 60) \o <<":">> \o Pad2(aoff % 60))

NewEncodeState == [buf |-> <<>>, panic |-> NoError]

WriteString(e, s) == IF Panicking(e) THEN e ELSE [e EXCEPT !.buf = @ \o s]

WriteByte(e, c) == WriteString(e, <<c>>)

\* panic(v) in the emitter
epanic(e, v) == IF Panicking(e) THEN e ELSE [e EXCEPT !.panic = v]

\* The code point of the rune that starts s, n bytes wide.
RuneValue(s, n) ==
    CASE n = 1 -> CodePoint(s[1])
      [] n = 2 -> ((ByteVal(s[1]) - 192) * 64) + (ByteVal(s[2]) - 128)
      [] n = 3 -> ((ByteVal(s[1]) - 224) * 4096) + ((ByteVal(s[2]) - 128) * 64)
                  + (ByteVal(s[3]) - 128)
      [] n = 4 -> ((ByteVal(s[1]) - 240) * 262144) + ((ByteVal(s[2]) - 128) * 4096)
                  + ((ByteVal(s[3]) - 128) * 64) + (ByteVal(s[4]) - 128)

\* strconv.IsPrint: printable ASCII; the runes above 0x7f that occur in the
\* inputs are letters and are printable.
IsPrint(r) == r >= 128 \/ (32 <= r /\ r <= 126)

\* The n lower-case hexadecimal digits of v (fmt's %04x and %08x).
RECURSIVE HexDigits(_, _)
HexDigits(v, n) ==
    IF n = 0 THEN <<>>
    ELSE HexDigits(v \div 16, n - 1) \o <<Chars("0123456789abcdef")[(v % 16) + 1]>>

RECURSIVE quoteLoop(_, _, _, _, _)

\* One turn of the loop of quoteBasic: d is the rune that starts s and its
\* width, r its code point.
quoteRune(s, d, r, multiline, ASCIIOnly, pendingQuotes, buf) ==
    LET rest == SubSeq(s, d.n + 1, Len(s))
        \* } else if pendingQuotes != "" { buf = append(buf, pendingQuotes...) }
        b1 == buf \o pendingQuotes
        again(b) == quoteLoop(rest, multiline, ASCIIOnly, pendingQuotes, b)
    IN  IF d.r = RuneError THEN [ok |-> FALSE, s |-> <<>>]
        ELSE IF d.r = "\""
        THEN IF ~multiline \/ Len(pendingQuotes) = 2
             THEN again(buf \o Chars("\\\""))
             ELSE quoteLoop(rest, multiline, ASCIIOnly, pendingQuotes \o <<"\"">>, buf)
        ELSE IF d.r = "\\" THEN again(b1 \o Chars("\\\\"))
        ELSE IF multiline /\ d.r \in {"\r", "\n"} THEN again(b1 \o <<d.r>>)
        ELSE IF ASCIIOnly /\ r < 128 /\ IsPrint(r) THEN again(b1 \o <<d.r>>)
        ELSE IF ~ASCIIOnly /\ IsPrint(r) THEN again(b1 \o SubSeq(s, 1, d.n))
        ELSE IF r = 8 THEN again(b1 \o Chars("\\b"))
        ELSE IF d.r = "\t" THEN again(b1 \o Chars("\\t"))
        ELSE IF d.r = "\f" THEN again(b1 \o Chars("\\f"))
        ELSE IF d.r = "\r" THEN again(b1 \o Chars("\\r"))
        ELSE IF d.r = "\n" THEN again(b1 \o Chars("\\n"))
        ELSE IF r < 65536 THEN again(b1 \o Chars("\\u") \o HexDigits(r, 4))
        ELSE again(b1 \o Chars("\\U") \o HexDigits(r, 8))

\* The loop of quoteBasic from s on, with buf and pendingQuotes as they are.
quoteLoop(s, multiline, ASCIIOnly, pendingQuotes, buf) ==
    IF s = <<>> THEN [ok |-> TRUE, s |-> buf]
    ELSE quoteRune(s,
                   IF s[1] \in HighBytes THEN DecodeRuneInString(s)
                   ELSE [r |-> s[1], n |-> 1],
                   IF s[1] \in HighBytes
                   THEN (IF DecodeRuneInString(s).r = RuneError THEN 65533
                         ELSE RuneValue(s, DecodeRuneInString(s).n))
                   ELSE CodePoint(s[1]),
                   multiline, ASCIIOnly, pendingQuotes, buf)

\* quoteBasic(s, quotes, ASCIIOnly); ok is FALSE for the InvalidUTF8Error panic.
quoteBasic(s, quotes, ASCIIOnly) ==
    quoteLoop(s, quotes = Chars("\"\"\""), ASCIIOnly, <<>>, <<>>)

Has(options, opt) == Chars(opt) \in options

\* parseTag: the name before the first comma and the options after it.
parseTag(tag) ==
    LET splits == Split(tag, <<",">>)
    IN  [name |-> splits[1], options |-> {splits[i] : i \in 2..Len(splits)}]

\* ast.IsExported: the name begins with an upper-case letter.
IsExported(name) == name # <<>> /\ name[1] \in Uppers

isASCIIString(s) == \A i \in DOMAIN s : s[i] \notin HighBytes

\* Whether sub occurs in s (strings.Index(s, sub) # -1).
Contains(s, sub) ==
    \E i \in 1..(Len(s) - Len(sub) + 1) : SubSeq(s, i, i + Len(sub) - 1) = sub

\* Whether a byte of set occurs in s (strings.IndexAny(s, chars) # -1).
ContainsAny(s, set) == \E i \in DOMAIN s : s[i] \in set

WriteQuoted(e, s, quotes, options) ==
    LET write(q) == IF ~q.ok THEN epanic(e, [kind |-> "InvalidUTF8Error"])
                    ELSE WriteString(e, q.s)
    IN  write(quoteBasic(s, quotes, Has(options, "ascii")))

marshalBasicString(e, s, options) ==
    WriteByte(WriteQuoted(WriteByte(e, "\""), s, Chars("\""), options), "\"")

marshalMultilineString(e, s, options) ==
    WriteString(WriteQuoted(WriteByte(WriteString(e, Chars("\"\"\"")), "\n"),
                            s, Chars("\"\"\""), options),
                Chars("\"\"\""))

marshalLiteralString(e, s, options) ==
    IF Has(options, "ascii") /\ ~isASCIIString(s) THEN marshalBasicString(e, s, options)
    ELSE WriteByte(WriteString(WriteByte(e, "'"), s), "'")

marshalMultilineLiteral(e, s, options) ==
    IF Has(options, "ascii") /\ ~isASCIIString(s) THEN marshalMultilineString(e, s, options)
    ELSE WriteString(WriteString(WriteByte(WriteString(e, Chars("'''")), "\n"), s),
                     Chars("'''"))

\* marshalStringValue that writes a literal string whatever the content.
marshalStringValueLiteral(e, s, options) ==
    IF Has(options, "multiline")
    THEN IF Has(options, "literal")
         THEN marshalMultilineLiteral(e, s, options)
         ELSE marshalMultilineString(e, s, options)
    ELSE IF Has(options, "literal")
    THEN marshalLiteralString(e, s, options)
    ELSE marshalBasicString(e, s, options)

marshalStringValue(e, s, options) ==
    IF Has(options, "multiline")
    THEN IF Has(options, "literal") /\ ~Contains(s, Chars("'''"))
         THEN marshalMultilineLiteral(e, s, options)
         ELSE marshalMultilineString(e, s, options)
    ELSE IF Has(options, "literal") /\ ~ContainsAny(s, {"'", "\r", "\n"})
    THEN marshalLiteralString(e, s, options)
    ELSE marshalBasicString(e, s, options)

marshalRawValue(e, v, options) ==
    IF Has(options, "string") \/ Has(options, "literal")
    THEN marshalStringValue(e, v, options)
    ELSE WriteString(e, v)

\* strconv.FormatBool
FormatBool(b) == IF b THEN Chars("true") ELSE Chars("false")

marshalBoolValue(e, b, options) == marshalRawValue(e, FormatBool(b), options)

marshalIntValue(e, i, options) == marshalRawValue(e, FormatInt(i), options)

marshalFloatValue(e, f, options) ==
    LET s == FormatFloat(f)
    IN  marshalRawValue(e, IF ~ContainsAny(s, {".", "e"}) THEN s \o Chars(".0") ELSE s,
                        options)

marshalDatetimeValue(e, value, options) ==
    marshalRawValue(e, FormatRFC3339Nano(value), options)

\* &table{Inline: Inline, Path: Path, sep: sep}; keys is nil unless tracked.
table(Inline, Path, sep, tracked) ==
    [Inline |-> Inline, Path |-> Path, sep |-> sep,
     keys |-> [nil |-> ~tracked, m |-> {}], tables |-> <<>>]

fieldSep(t) ==
    [sep |-> t.sep,
     t |-> IF t.sep = <<>> THEN [t EXCEPT !.sep = <<"\n">>]
           ELSE IF t.sep = <<" ">> THEN [t EXCEPT !.sep = Chars(", ")]
           ELSE t]

tableSep(t) ==
    IF t.sep = <<>> THEN [sep |-> <<>>, t |-> [t EXCEPT !.sep = <<"\n">>]]
    ELSE [sep |-> Chars("\n\n"), t |-> t]

\* recordKey without the look at the keys recorded.
recordKeyUnchecked(e, t, key) ==
    IF t.keys.nil THEN [e |-> e, t |-> t]
    ELSE [e |-> e, t |-> [t EXCEPT !.keys.m = @ \cup {key}]]

recordKey(e, t, key) ==
    IF t.keys.nil THEN [e |-> e, t |-> t]
    ELSE IF key \in t.keys.m
    THEN [e |-> epanic(e, [kind |-> "DuplicatedKeyError", Path |-> t.Path, Key |-> key]),
          t |-> t]
    ELSE [e |-> e, t |-> [t EXCEPT !.keys.m = @ \cup {key}]]

appendStructField(e, t, key, value) ==
    LET r == recordKey(e, t, key)
    IN  [e |-> r.e,
         t |-> IF Panicking(r.e) THEN r.t
               ELSE [r.t EXCEPT !.tables = Append(@, [key |-> key, value |-> value])]]

WriteSepKeyAssign(e, sep, key) ==
    WriteString(WriteString(WriteString(e, sep), normalizeKey(key)), Chars(" = "))

\* t.recordKey(key); e.WriteSepKeyAssign(t.fieldSep(), key): the head of
\* every marshal...Field.
WriteFieldKey(e, t, key) ==
    LET r == recordKey(e, t, key)
        s == fieldSep(r.t)
    IN  IF Panicking(r.e) THEN r
        ELSE [e |-> WriteSepKeyAssign(r.e, s.sep, key), t |-> s.t]

marshalBoolField(e, t, key, b, options) ==
    LET k == WriteFieldKey(e, t, key)
    IN  [e |-> marshalBoolValue(k.e, b, options), t |-> k.t]

marshalIntField(e, t, key, i, options) ==
    LET k == WriteFieldKey(e, t, key)
    IN  [e |-> marshalIntValue(k.e, i, options), t |-> k.t]

marshalFloatField(e, t, key, f, options) ==
    LET k == WriteFieldKey(e, t, key)
    IN  [e |-> marshalFloatValue(k.e, f, options), t |-> k.t]

marshalStringField(e, t, key, value, options) ==
    LET k == WriteFieldKey(e, t, key)
    IN  [e |-> marshalStringValue(k.e, value, options), t |-> k.t]

marshalDatetimeField(e, t, key, value, options) ==
    LET k == WriteFieldKey(e, t, key)
    IN  [e |-> marshalDatetimeValue(k.e, value, options), t |-> k.t]

\* checkArrayElemType taking every element type.
checkArrayElemTypeAny(e, elemType, newType) == [e |-> e, elemType |-> newType]

\* The closure of checkArrayElemType on the element type seen so far.
checkArrayElemType(e, elemType, newType) ==
    IF elemType = "" THEN [e |-> e, elemType |-> newType]
    ELSE IF elemType # newType
    THEN [e |-> epanic(e, [kind |-> "MarshalArrayError", Expected |-> elemType,
                           Got |-> newType]),
          elemType |-> elemType]
    ELSE [e |-> e, elemType |-> elemType]

isTableType(kind) == kind \in {"map", "struct"}

\* A nil pointer to a value of kind elemKind, and a pointer to elem.
NilPtr(elemKind) == [kind |-> "ptr", elemKind |-> elemKind, elem |-> [kind |-> Nil]]
PtrTo(elem) == [kind |-> "ptr", elemKind |-> elem.kind, elem |-> elem]
IsNil(v) == v.elem.kind = Nil

\* indirectPtr: the value behind the pointers that are not nil; of the kinds
\* modelled, time.Time alone implements encoding.TextMarshaler.
RECURSIVE indirectPtr(_)
indirectPtr(v) ==
    IF v.kind = "ptr" /\ ~IsNil(v) THEN indirectPtr(v.elem)
    ELSE [ti |-> v.kind = "time.Time", v |-> v]

isEmptyValue(v) ==
    CASE v.kind \in {"slice", "map"} -> DOMAIN v.v = {}
      [] v.kind = "string" -> v.v = <<>>
      [] v.kind = "bool" -> v.v = FALSE
      [] v.kind = "int64" -> v.v.mag = <<"0">>
      [] v.kind = "float64" -> v.v.mant = <<>> /\ ~IsNaN(v.v) /\ ~IsInf(v.v)
      [] v.kind = "ptr" -> IsNil(v)
      [] OTHER -> FALSE

MarshalTypeError(kind, as) == [kind |-> "MarshalTypeError", Type |-> kind, As |-> as]

RECURSIVE marshalArrayValue(_, _, _, _), marshalArrayElems(_, _, _, _, _, _, _)
RECURSIVE marshalMapValue(_, _, _, _), marshalMapFields(_, _, _)
RECURSIVE marshalTableField(_, _, _, _, _), marshalArrayField(_, _, _, _, _)
RECURSIVE marshalMapField(_, _, _, _)
RECURSIVE marshalStructFields(_, _, _), marshalStructTable(_, _)
RECURSIVE marshalStructValue(_, _, _, _), marshalStructField(_, _, _, _)

\* The loop of marshalArrayValue from index i (from 0) on.
marshalArrayElems(e, path, v, options, i, sep, elemType) ==
    IF Panicking(e) \/ i >= Len(v.v) THEN e
    ELSE LET e1 == WriteString(e, sep)
             elem == indirectPtr(v.v[i + 1]).v
             chk(newType) == checkArrayElemType(e1, elemType, newType)
             next(r, s) == marshalArrayElems(r.e, path, v, options, i + 1, s, r.elemType)
         IN  CASE elem.kind = "time.Time" ->
                    \* continue: sep stays as it was
                    LET c == chk("datetime")
                    IN  next([c EXCEPT !.e = marshalDatetimeValue(c.e, elem.v, options)], sep)
               [] elem.kind = "bool" ->
                    LET c == chk("boolean")
                    IN  next([c EXCEPT !.e = marshalBoolValue(c.e, elem.v, options)],
                             Chars(", "))
               [] elem.kind = "int64" ->
                    LET c == chk("integer")
                    IN  next([c EXCEPT !.e = marshalIntValue(c.e, elem.v, options)],
                             Chars(", "))
               [] elem.kind = "float64" ->
                    LET c == chk("float")
                    IN  next([c EXCEPT !.e = marshalFloatValue(c.e, elem.v, options)],
                             Chars(", "))
               [] elem.kind = "string" ->
                    LET c == chk("string")
                    IN  next([c EXCEPT !.e = marshalStringValue(c.e, elem.v, options)],
                             Chars(", "))
               [] elem.kind = "slice" ->
                    LET a == marshalArrayValue(e1, combineIndexPath(path, i), elem, options)
                    IN  next(checkArrayElemType(a.e, elemType, a.type), Chars(", "))
               [] elem.kind = "map" ->
                    LET c == chk("table")
                    IN  next([c EXCEPT !.e = marshalMapValue(c.e, combineIndexPath(path, i),
                                                             elem, options)],
                             Chars(", "))
               [] elem.kind = "struct" ->
                    LET c == chk("table")
                    IN  next([c EXCEPT !.e = marshalStructValue(c.e, combineIndexPath(path, i),
                                                                elem, options)],
                             Chars(", "))
               [] OTHER -> epanic(e1, MarshalTypeError(elem.kind, "array element"))

marshalArrayValue(e, path, v, options) ==
    [e |-> WriteString(marshalArrayElems(WriteByte(e, "["), path, v, options, 0,
                                         <<" ">>, ""),
                       Chars(" ]")),
     type |-> "array"]

marshalArrayField(e, t, key, v, options) ==
    IF Len(v.v) # 0 /\ ~indirectPtr(v.v[1]).ti /\ isTableType(indirectPtr(v.v[1]).v.kind)
       /\ ~Has(options, "inline")
    THEN appendStructField(e, t, key, v)
    ELSE LET k == WriteFieldKey(e, t, key)
         IN  [e |-> marshalArrayValue(k.e, combineKeyPath(t.Path, key), v, options).e,
              t |-> k.t]

marshalTableField(e, t, key, v0, options) ==
    LET v == indirectPtr(v0).v
    IN  CASE v.kind = "time.Time" -> marshalDatetimeField(e, t, key, v.v, options)
          [] Has(options, "omitempty") /\ isEmptyValue(v) -> [e |-> e, t |-> t]
          [] v.kind = "bool" -> marshalBoolField(e, t, key, v.v, options)
          [] v.kind = "int64" -> marshalIntField(e, t, key, v.v, options)
          [] v.kind = "float64" -> marshalFloatField(e, t, key, v.v, options)
          [] v.kind = "string" -> marshalStringField(e, t, key, v.v, options)
          [] v.kind = "slice" -> marshalArrayField(e, t, key, v, options)
          [] v.kind = "map" ->
                IF t.Inline \/ Has(options, "inline") THEN marshalMapField(e, t, key, v)
                ELSE appendStructField(e, t, key, v)
          [] v.kind = "struct" ->
                IF t.Inline \/ Has(options, "inline") THEN marshalStructField(e, t, key, v)
                ELSE appendStructField(e, t, key, v)
          \* nil pointer/interface are ignored.
          [] v.kind = "ptr" -> [e |-> e, t |-> t]
          [] OTHER -> [e |-> epanic(e, MarshalTypeError(v.kind, "value")), t |-> t]

\* for _, k := range keys { e.marshalTableField(t, k.String(), v.MapIndex(k), nil) }
\* from the i-th key on; f holds the encodeState as e and the table as t.
marshalMapFields(f, v, i) ==
    IF Panicking(f.e) \/ i > Len(v.keys) THEN f
    ELSE marshalMapFields(marshalTableField(f.e, f.t, v.keys[i], v.v[v.keys[i]], {}),
                          v, i + 1)

marshalMapValue(e, path, v, options) ==
    WriteByte(marshalMapFields([e |-> WriteByte(e, "{"),
                                t |-> table(TRUE, <<>>, <<" ">>, FALSE)], v, 1).e,
              "}")

marshalMapField(e, t, key, v) ==
    LET k == WriteFieldKey(e, t, key)
    IN  [e |-> marshalMapValue(k.e, combineKeyPath(t.Path, key), v, {}), t |-> k.t]

\* The loop of marshalStructTable from the i-th field on; f holds the
\* encodeState as e and the table as t.
marshalStructFields(f, v, i) ==
    IF Panicking(f.e) \/ i > Len(v.fields) THEN f
    ELSE LET sf == v.fields[i]
             tag == parseTag(sf.tag)
             fieldValue == sf.value
             again(g) == marshalStructFields(g, v, i + 1)
         IN  IF tag.name = <<"-">> THEN again(f)
             ELSE IF sf.Anonymous /\ tag.name = <<>> /\ fieldValue.kind = "struct"
             THEN again(marshalStructTable(f, fieldValue))
             ELSE IF sf.Anonymous /\ tag.name = <<>> /\ fieldValue.kind = "ptr"
                     /\ fieldValue.elemKind = "struct"
             THEN IF IsNil(fieldValue) THEN again(f)
                  ELSE again(marshalStructTable(f, fieldValue.elem))
             ELSE IF ~IsExported(sf.Name) THEN again(f)
             ELSE again(marshalTableField(f.e, f.t,
                                          IF tag.name = <<>> THEN sf.Name ELSE tag.name,
                                          fieldValue, tag.options))

marshalStructTable(f, v) == marshalStructFields(f, v, 1)

marshalStructValue(e, path, v, options) ==
    marshalStructTable([e |-> e, t |-> table(TRUE, path, <<" ">>, TRUE)], v).e

marshalStructField(e, t, key, v) ==
    LET k == WriteFieldKey(e, t, key)
    IN  [e |-> marshalStructValue(k.e, combineKeyPath(t.Path, key), v, {}), t |-> k.t]

RECURSIVE marshalTables(_, _), marshalTableElems(_, _, _, _, _), marshalMap(_, _, _)
RECURSIVE marshalStruct(_, _, _), marshalTableKind(_, _, _)

\* switch v.Kind(): case reflect.Map: e.marshalMap(path, v); case
\* reflect.Struct: e.marshalStruct(path, v), as Marshal and marshalTables have
\* it.
marshalTableKind(e, path, v) ==
    IF v.kind = "struct" THEN marshalStruct(e, path, v) ELSE marshalMap(e, path, v)

\* The loop of marshalTables over the elements of an array of tables, from
\* index i (from 0) on.
marshalTableElems(e, sup, path, v, i) ==
    IF Panicking(e) \/ i >= Len(v.v) THEN [e |-> e, t |-> sup]
    ELSE LET s == tableSep(sup)
             e1 == WriteString(e, s.sep \o Chars("[[") \o path \o Chars("]]"))
             x == indirectPtr(v.v[i + 1])
         IN  IF x.ti \/ x.v.kind \notin {"map", "struct"}
             THEN [e |-> epanic(e1, MarshalTypeError(x.v.kind, "table")), t |-> s.t]
             ELSE marshalTableElems(marshalTableKind(e1, path, x.v), s.t, path, v, i + 1)

\* e.marshalTables(t, t.tables) from the i-th postponed field on; f holds the
\* encodeState as e and the table as t.
marshalTables(f, i) ==
    IF Panicking(f.e) \/ i > Len(f.t.tables) THEN f.e
    ELSE LET v == f.t.tables[i].value
             path == combineKeyPath(f.t.Path, f.t.tables[i].key)
             s == tableSep(f.t)
         IN  CASE v.kind \in {"map", "struct"} ->
                    marshalTables(
                        [e |-> marshalTableKind(
                                   WriteString(f.e, s.sep \o <<"[">> \o path \o <<"]">>),
                                   path, v),
                         t |-> s.t], i + 1)
               [] v.kind = "slice" ->
                    marshalTables(marshalTableElems(f.e, f.t, path, v, 0), i + 1)
               [] OTHER -> epanic(f.e, [kind |-> "toml: unexpected postponed field"])

\* marshalMap with the postponed tables written before the fields.
marshalMapTablesFirst(e, path, v) ==
    LET t == table(FALSE, path, IF path = <<>> THEN <<>> ELSE <<"\n">>, FALSE)
        postponed == marshalMapFields([e |-> e, t |-> t], v, 1).t
    IN  marshalMapFields([e |-> marshalTables([e |-> e, t |-> postponed], 1), t |-> t],
                         v, 1).e

marshalMap(e, path, v) ==
    marshalTables(
        marshalMapFields([e |-> e,
                          t |-> table(FALSE, path,
                                      IF path = <<>> THEN <<>> ELSE <<"\n">>, FALSE)],
                         v, 1),
        1)

marshalStruct(e, path, v) ==
    marshalTables(
        marshalStructTable([e |-> e,
                            t |-> table(FALSE, path,
                                        IF path = <<>> THEN <<>> ELSE <<"\n">>, TRUE)],
                           v),
        1)

\* validMarshal: the value behind the pointers must be a struct or a map.
validMarshal(v) ==
    LET rv == indirectPtr(v)
    IN  IF rv.ti THEN [ok |-> FALSE, rv |-> rv.v, err |-> MarshalTypeError(v.kind, "table")]
        ELSE IF rv.v.kind \in {"map", "struct"}
        THEN [ok |-> TRUE, rv |-> rv.v, err |-> NoError]
        ELSE IF rv.v.kind = "ptr"
        THEN [ok |-> FALSE, rv |-> rv.v, err |-> [kind |-> "InvalidMarshalError"]]
        ELSE [ok |-> FALSE, rv |-> rv.v, err |-> MarshalTypeError(v.kind, "table")]

\* The deferred catchError and the return of Marshal: a panic of the emitter
\* becomes the error, and the buffer otherwise the bytes.
catchError(e) ==
    IF Panicking(e) THEN [b |-> <<>>, err |-> e.panic] ELSE [b |-> e.buf, err |-> NoError]

\* Marshal once validMarshal has returned r.
marshalValid(r) ==
    IF ~r.ok THEN [b |-> <<>>, err |-> r.err]
    ELSE catchError(WriteByte(marshalTableKind(NewEncodeState, <<>>, r.rv), "\n"))

Marshal(v) == marshalValid(validMarshal(v))

\* The permutations of a finite set, as sequences.
Perms(S) ==
    {s \in [1..Cardinality(S) -> S] : \A i, j \in 1..Cardinality(S) : i # j => s[i] # s[j]}

\* The Go values a value can be met as when ranged over: every map yields
\* its keys (v.MapKeys()) in an order that is not specified.
RECURSIVE Ranged(_), RangedElems(_, _), RangedFields(_, _)
Ranged(g) ==
    CASE g.kind = "map" ->
            {[kind |-> "map", v |-> f, keys |-> ks] :
                ks \in Perms(DOMAIN g.v), f \in RangedElems(g, DOMAIN g.v)}
      [] g.kind = "slice" ->
            {[kind |-> "slice", v |-> f] : f \in RangedElems(g, DOMAIN g.v)}
      [] g.kind = "struct" ->
            {[kind |-> "struct", fields |-> fs] : fs \in RangedFields(g.fields, Len(g.fields))}
      [] g.kind = "ptr" /\ ~IsNil(g) -> {[g EXCEPT !.elem = x] : x \in Ranged(g.elem)}
      [] OTHER -> {g}

\* The first n fields of a struct, each with its value as it can be met.
RangedFields(fields, n) ==
    IF n = 0 THEN {<<>>}
    ELSE {Append(fs, [fields[n] EXCEPT !.value = x]) :
             fs \in RangedFields(fields, n - 1), x \in Ranged(fields[n].value)}

\* The elements of g at the keys or indices D, each as it can be met.
RangedElems(g, D) ==
    IF D = {} THEN {<<>>}
    ELSE LET k == CHOOSE x \in D : TRUE
         IN  {MapSet(f, k, x) : f \in RangedElems(g, D \ {k}), x \in Ranged(g.v[k])}

\* The value without the order of its keys.
RECURSIVE Unranged(_)
Unranged(g) ==
    CASE g.kind = "map" -> [kind |-> "map", v |-> [k \in DOMAIN g.v |-> Unranged(g.v[k])]]
      [] g.kind = "slice" -> [kind |-> "slice", v |-> [i \in DOMAIN g.v |-> Unranged(g.v[i])]]
      [] OTHER -> g

(***************************************************************************)
(* The state: the fields of the parser, the local variable scanner of      *)
(* parser.parse, and what parse returns.                                   *)
(***************************************************************************)

VARIABLES
    doc,        \* the document handed to the first parse
    given,      \* the Go value handed to Marshal by a caller of its own
    results,    \* what the calls of Marshal on given have returned
    run,        \* "first" for the parse of doc, then the parse that follows it
    first,      \* what the first parse returned, once another has started
    input, mark, pos, line, backups,
    heap,       \* the tables and arrays allocated; heap[Root] is p.root
    envs, keys, names, str, num, scanners, err,
    scanner,    \* the scanner the loop of parser.parse calls next
    panicv,     \* the value being panicked while pc = "recover"
    pc,         \* "call", "loop", "recover", "done" (parse returned), "crashed"
    ret,        \* parse's results: tree (0 for nil) and err
    goroutines, \* the calls of parse made on goroutines of their own
    parsers,    \* the parsers these calls have allocated; a *parser is an index
    ahead,      \* where the loop is followed to its end: the parser as the
                \* scanner about to be called returns it
    enc         \* an *Encoder: its stream w and its field err

parserVars == <<input, mark, pos, line, backups, heap, envs, keys, names, str,
                num, scanners, err, scanner, panicv, pc, ret>>
vars == <<doc, given, results, run, first, input, mark, pos, line, backups, heap, envs, keys,
          names, str, num, scanners, err, scanner, panicv, pc, ret, goroutines, parsers, ahead,
          enc>>

\* The parser as a record.
P ==
    [mark |-> mark, pos |-> pos, line |-> line, input |-> input,
     backups |-> backups, heap |-> heap, envs |-> envs, keys |-> keys,
     names |-> names, str |-> str, num |-> num, scanners |-> scanners,
     err |-> err, panic |-> NoError, next |-> scanner]

\* The parser's fields and the loop's variable take their values from q.
Store(q) ==
    /\ mark' = q.mark /\ pos' = q.pos /\ line' = q.line /\ input' = q.input
    /\ backups' = q.backups /\ heap' = q.heap /\ envs' = q.envs
    /\ keys' = q.keys /\ names' = q.names /\ str' = q.str /\ num' = q.num
    /\ scanners' = q.scanners /\ err' = q.err /\ scanner' = q.next
    /\ panicv' = q.panic

NoResult == [tree |-> 0, err |-> NoError]

\* parse(data) up to the loop of parser.parse.
StartParse(data) ==
    /\ Store(newParser(data))
    /\ pc' = "loop"
    /\ ret' = NoResult

\* One iteration of the loop of parser.parse, calling scanner fn.
Step(name, q) ==
    /\ pc = "loop"
    /\ scanner = name
    /\ Store(q)
    /\ pc' = IF Panicking(q) THEN "recover" ELSE "loop"
    /\ UNCHANGED <<enc, ahead, goroutines, parsers, doc, given, results, run, first, ret>>

\* The parser as the loop hands it to the scanner.
P0 == clearBackups(P)

\* parse that returns the root whatever parser.parse returned.
parseReturnRoot ==
    /\ pc = "loop"
    /\ scanner = Nil
    /\ ret' = [tree |-> Root, err |-> err]
    /\ pc' = "done"
    /\ UNCHANGED <<enc, ahead, goroutines, parsers, doc, given, results, run, first, input, mark, pos, line, backups, heap, envs,
                   keys, names, str, num, scanners, err, scanner, panicv>>

\* The loop ends; parser.parse returns p.err, and parse the root or the error.
parseReturn ==
    /\ pc = "loop"
    /\ scanner = Nil
    /\ ret' = IF err # NoError THEN [tree |-> 0, err |-> err]
              ELSE [tree |-> Root, err |-> NoError]
    /\ pc' = "done"
    /\ UNCHANGED <<enc, ahead, goroutines, parsers, doc, given, results, run, first, input, mark, pos, line, backups, heap, envs,
                   keys, names, str, num, scanners, err, scanner, panicv>>

\* The deferred errRecover: a *ParseError becomes the result, a runtime
\* error is panicked again.
errRecover ==
    /\ pc = "recover"
    /\ IF panicv.kind = "ParseError"
       THEN ret' = [tree |-> 0, err |-> panicv] /\ pc' = "done"
       ELSE ret' = ret /\ pc' = "crashed"
    /\ UNCHANGED <<enc, ahead, goroutines, parsers, doc, given, results, run, first, input, mark, pos, line, backups, heap, envs,
                   keys, names, str, num, scanners, err, scanner, panicv>>

ScanStep ==
    \/ Step("scanTop", scanTop(P0))
    \/ Step("scanTopEnd", scanTopEnd(P0))
    \/ Step("scanComment", scanComment(P0))
    \/ Step("scanTableStart", scanTableStart(P0))
    \/ Step("scanTableNameStart", scanTableNameStart(P0))
    \/ Step("scanTableNameInside", scanTableNameInside(P0))
    \/ Step("scanTableNameEnd", scanTableNameEnd(P0))
    \/ Step("scanTableNameString", scanTableNameString(P0))
    \/ Step("scanByteRBracket", scanByteRBracket(P0))
    \/ Step("scanTableEnd", scanTableEnd(P0))
    \/ Step("scanArrayTableEnd", scanArrayTableEnd(P0))
    \/ Step("scanTableField", scanTableField(P0))
    \/ Step("scanBareKey", scanBareKey(P0))
    \/ Step("scanKeyEnd", scanKeyEnd(P0))
    \/ Step("scanFieldAssign", scanFieldAssign(P0))
    \/ Step("scanValue", scanValue(P0))
    \/ Step("scanInlineTableStart", scanInlineTableStart(P0))
    \/ Step("scanInlineTableFieldEnd", scanInlineTableFieldEnd(P0))
    \/ Step("scanArrayStart", scanArrayStart(P0))
    \/ Step("scanArrayValue", scanArrayValue(P0))
    \/ Step("scanArrayEnd", scanArrayEnd(P0))
    \/ Step("scanStringStart", scanStringStart(P0))
    \/ Step("scanString", scanString(P0))
    \/ Step("scanMultiLineString", scanMultiLineString(P0))
    \/ Step("scanConsumeSpaceOrNewline", scanConsumeSpaceOrNewline(P0))
    \/ Step("scanEscapedRune", scanEscapedRune(P0))
    \/ Step("scanLiteralStart", scanLiteralStart(P0))
    \/ Step("scanLiteral", scanLiteral(P0))
    \/ Step("scanMultiLineLiteral", scanMultiLineLiteral(P0))
    \/ Step("setStringValue", setStringValue(P0))
    \/ Step("scanRecord0", scanRecord0(P0))
    \/ Step("scanDigit", scanDigit(P0))
    \/ Step("scanColon", scanColon(P0))
    \/ Step("scanHash", scanHash(P0))
    \/ Step("scanNumberStart", scanNumberStart(P0))
    \/ Step("scanNumberOrDate", scanNumberOrDate(P0))
    \/ Step("scanNumber", scanNumber(P0))
    \/ Step("scanFloatFraction", scanFloatFraction(P0))
    \/ Step("scanFloatExponentSign", scanFloatExponentSign(P0))
    \/ Step("scanFloatExponent", scanFloatExponent(P0))
    \/ Step("scanDateTime", scanDateTime(P0))
    \/ Step("scanDateTimeFraction", scanDateTimeFraction(P0))
    \/ Step("scanDateTimeEnd", scanDateTimeEnd(P0))
    \/ Step("scanDateEnd", scanDateEnd(P0))

(***************************************************************************)
(* The tree a pointer leads to                                             *)
(***************************************************************************)

\* The value with every pointer replaced by the object it points to.
RECURSIVE Tree(_, _)
Tree(h, value) ==
    CASE value.type = "table" ->
            [type |-> "table", Implicit |-> h[value.v].Implicit,
             Elems |-> [k \in DOMAIN h[value.v].Elems |-> Tree(h, h[value.v].Elems[k])]]
      [] value.type = "array" ->
            [type |-> "array", Closed |-> h[value.v].Closed,
             Elems |-> [i \in DOMAIN h[value.v].Elems |-> Tree(h, h[value.v].Elems[i])]]
      [] OTHER -> value

\* Table.Interface and Array.Interface: the Go value of a tree, a
\* map[string]interface{}, a []interface{} or a scalar.
RECURSIVE Interface(_, _)
Interface(h, value) ==
    CASE value.type = "table" ->
            [kind |-> "map",
             v |-> [k \in DOMAIN h[value.v].Elems |-> Interface(h, h[value.v].Elems[k])]]
      [] value.type = "array" ->
            [kind |-> "slice",
             v |-> [i \in DOMAIN h[value.v].Elems |-> Interface(h, h[value.v].Elems[i])]]
      [] value.type = "boolean" -> [kind |-> "bool", v |-> value.v]
      [] value.type = "integer" -> [kind |-> "int64", v |-> value.v]
      [] value.type = "float" -> [kind |-> "float64", v |-> value.v]
      [] value.type = "string" -> [kind |-> "string", v |-> value.v]
      [] value.type = "datetime" -> [kind |-> "time.Time", v |-> value.v]

(***************************************************************************)
(* Emitting what was parsed, and parsing again                             *)
(***************************************************************************)

\* reflect.DeepEqual on the Go values of two trees.
RECURSIVE DeepEqual(_, _)
DeepEqual(x, y) ==
    /\ x.kind = y.kind
    /\ CASE x.kind = "map" ->
                /\ DOMAIN x.v = DOMAIN y.v
                /\ \A k \in DOMAIN x.v : DeepEqual(x.v[k], y.v[k])
         [] x.kind = "slice" ->
                /\ Len(x.v) = Len(y.v)
                /\ \A i \in DOMAIN x.v : DeepEqual(x.v[i], y.v[i])
         [] OTHER -> x.v = y.v

NoOutput == [b |-> <<>>, err |-> NoError]
NoFirst == [ret |-> NoResult, tree |-> <<>>, value |-> <<>>, out |-> NoOutput]

\* Marshal on the value Unmarshal stores for the root (t.Interface()), and
\* parse on the bytes Marshal returned, as TestMarshal goes round.
MarshalTree ==
    /\ pc = "done"
    /\ run = "first"
    /\ ret.tree # 0
    /\ \E g \in Ranged(Interface(heap, TablePtr(Root))) :
       \E out \in {Marshal(g)} :
              /\ first' = [ret |-> ret, tree |-> Tree(heap, TablePtr(Root)),
                           value |-> g, out |-> out]
              /\ IF out.err = NoError
                 THEN StartParse(out.b)
                 ELSE /\ pc' = "failed"
                      /\ UNCHANGED <<input, mark, pos, line, backups, heap, envs, keys,
                                     names, str, num, scanners, err, scanner, panicv,
                                     ret>>
    /\ run' = "emitted"
    /\ UNCHANGED <<enc, ahead, goroutines, parsers, doc, given, results>>

(***************************************************************************)
(* Unmarshal: the tree of parse stored in a Go value. The Go value         *)
(* is the variable a pointer leads to; what the decoder sets in it is      *)
(* returned as v, and what it panics with as panic.                        *)
(***************************************************************************)

UnmarshalOverflowError(value, type) ==
    [kind |-> "UnmarshalOverflowError", Value |-> value, Type |-> type]

UnmarshalTypeError(value, type) ==
    [kind |-> "UnmarshalTypeError", Value |-> value, Type |-> type]

InvalidUnmarshalError(type) == [kind |-> "InvalidUnmarshalError", Type |-> type]

\* The size in bits of int and of uint, as a 64-bit build has it.
IntSize == 64

IntKinds == {"int", "int8", "int16", "int32", "int64"}
UintKinds == {"uint", "uint8", "uint16", "uint32", "uint64"}

\* v.typ.Size() * 8 for a value of an integer kind.
BitSize(kind) ==
    CASE kind \in {"int8", "uint8"} -> 8
      [] kind \in {"int16", "uint16"} -> 16
      [] kind \in {"int32", "uint32"} -> 32
      [] kind \in {"int64", "uint64"} -> 64
      [] kind \in {"int", "uint"} -> IntSize

\* The digits of 1 << n, for the n that the sizes of the kinds lead to.
Pow2(n) ==
    CASE n = 7 -> Chars("128")
      [] n = 8 -> Chars("256")
      [] n = 15 -> Chars("32768")
      [] n = 16 -> Chars("65536")
      [] n = 31 -> Chars("2147483648")
      [] n = 32 -> Chars("4294967296")
      [] n = 63 -> Chars("9223372036854775808")
      [] n = 64 -> Chars("18446744073709551616")

DigitsLess(a, b) == Len(a) < Len(b) \/ (Len(a) = Len(b) /\ DigitsGreater(b, a))

\* reflect.Value.OverflowInt: x is not what is left of it in the bits of the
\* kind, that is x < -(1 << (bits - 1)) or x >= 1 << (bits - 1).
OverflowInt(kind, x) ==
    IF x.neg THEN DigitsLess(Pow2(BitSize(kind) - 1), x.mag)
    ELSE ~DigitsLess(x.mag, Pow2(BitSize(kind) - 1))

\* reflect.Value.OverflowUint: x >= 1 << bits.
OverflowUint(kind, x) == ~DigitsLess(x.mag, Pow2(BitSize(kind)))

\* The zero value of a kind of integers, of strings, of booleans and of
\* interface{}.
Zero(kind) ==
    CASE kind \in IntKinds \cup UintKinds -> [kind |-> kind, v |-> ParseInt(<<"0">>).v]
      [] kind = "string" -> [kind |-> kind, v |-> <<>>]
      [] kind = "bool" -> [kind |-> kind, v |-> FALSE]
      [] kind = "interface" -> [kind |-> kind, v |-> [kind |-> Nil]]

Set(v, x) == [v |-> [v EXCEPT !.v = x], panic |-> NoError]
Throw(v, e0) == [v |-> v, panic |-> e0]

\* unmarshalInteger that stores the integer without a look at the range.
unmarshalIntegerUnchecked(i, v) ==
    CASE v.kind \in IntKinds \cup UintKinds -> Set(v, i)
      [] v.kind = "interface" -> Set(v, [kind |-> "int64", v |-> i])
      [] OTHER -> Throw(v, UnmarshalTypeError(Chars("integer ") \o FormatInt(i), v.kind))

unmarshalInteger(i, v) ==
    CASE v.kind \in IntKinds ->
            IF OverflowInt(v.kind, i)
            THEN Throw(v, UnmarshalOverflowError(Chars("integer ") \o FormatInt(i), v.kind))
            ELSE Set(v, i)
      [] v.kind \in UintKinds ->
            IF i.neg
            THEN Throw(v, UnmarshalOverflowError(Chars("integer ") \o FormatInt(i), v.kind))
            ELSE IF OverflowUint(v.kind, i)
            THEN Throw(v, UnmarshalOverflowError(Chars("integer ") \o i.mag, v.kind))
            ELSE Set(v, i)
      \* the interface{} of the model has no method
      [] v.kind = "interface" -> Set(v, [kind |-> "int64", v |-> i])
      [] OTHER -> Throw(v, UnmarshalTypeError(Chars("integer ") \o FormatInt(i), v.kind))

unmarshalBoolean(b, v) ==
    CASE v.kind = "bool" -> Set(v, b)
      [] v.kind = "interface" -> Set(v, [kind |-> "bool", v |-> b])
      [] OTHER -> Throw(v, UnmarshalTypeError(Chars("boolean ") \o FormatBool(b), v.kind))

\* strings.ToLower on an ASCII name.
ToLower(name) ==
    [i \in DOMAIN name |-> IF name[i] \in Uppers THEN CharOf(CodePoint(name[i]) + 32)
                           ELSE name[i]]

\* findField: the name a field is looked up under and the value found, Nil
\* for none; elems are the Elems of the table.
findField(elems, field, tagname) ==
    LET at(k) == IF k \in DOMAIN elems THEN elems[k] ELSE [type |-> Nil]
    IN  IF tagname # <<>> THEN [name |-> tagname, value |-> at(tagname)]
        ELSE IF field.Name \in DOMAIN elems
        THEN [name |-> field.Name, value |-> elems[field.Name]]
        ELSE [name |-> ToLower(field.Name), value |-> at(ToLower(field.Name))]

RECURSIVE unmarshalValue(_, _, _, _), unmarshalTable(_, _, _, _)
RECURSIVE unmarshalMapElems(_, _, _, _, _, _), unmarshalStructNested(_, _, _, _, _)

\* unmarshalValue: indirectValue allocates what a nil pointer lacks and
\* leads to the variable behind the pointers; the cases are those of the
\* values a document of integers, booleans and tables holds. order holds
\* the keys of the tables in the order a range over a map yields them.
unmarshalValue(h, tv, rv, order) ==
    IF rv.kind = "ptr"
    THEN LET r == unmarshalValue(h, tv, IF IsNil(rv) THEN Zero(rv.elemKind) ELSE rv.elem, order)
         IN  [v |-> PtrTo(r.v), panic |-> r.panic]
    ELSE CASE tv.type = "boolean" -> unmarshalBoolean(tv.v, rv)
           [] tv.type = "integer" -> unmarshalInteger(tv.v, rv)
           [] tv.type = "table" -> unmarshalTable(h, tv.v, rv, order)

\* The loop of unmarshalMap over the keys left in order; m is the map made so
\* far, and elemKind the kind of the elements of the map v.
unmarshalMapElems(h, a, v, order, left, m) ==
    IF left = <<>> THEN [v |-> [v EXCEPT !.v = m], panic |-> NoError]
    ELSE LET key == Head(left)
             r == unmarshalValue(h, h[a].Elems[key], Zero(v.elemKind), order)
         IN  IF r.panic # NoError THEN Throw(v, r.panic)
             ELSE unmarshalMapElems(h, a, v, order, Tail(left), MapSet(m, key, r.v))

\* The loop of unmarshalStructNested from the i-th field on; d holds the
\* struct as v, the panic and the names matched so far as matchs. An
\* embedded field of the model is a struct, never a pointer to one.
unmarshalStructNested(h, a, d, i, order) ==
    IF d.panic # NoError \/ i > Len(d.v.fields) THEN d
    ELSE LET field == d.v.fields[i]
             isExported == IsExported(field.Name)
             tag == parseTag(field.tag)
             found == IF isExported THEN findField(h[a].Elems, field, tag.name)
                      ELSE [name |-> tag.name, value |-> [type |-> Nil]]
             again(g) == unmarshalStructNested(h, a, g, i + 1, order)
             nested(x) == unmarshalStructNested(h, a, [d EXCEPT !.v = x], 1, order)
             with(r) == [v |-> [d.v EXCEPT !.fields[i].value = r.v],
                         panic |-> r.panic, matchs |-> r.matchs]
         IN  IF ~isExported /\ ~field.Anonymous THEN again(d)
             ELSE IF tag.name = <<"-">> THEN again(d)
             ELSE IF found.value.type = Nil
             THEN IF isExported /\ Has(tag.options, "omitempty")
                  THEN again([d EXCEPT !.v.fields[i].value = Zero(field.value.kind)])
                  ELSE IF field.Anonymous /\ field.value.kind = "struct"
                  THEN again(with(nested(field.value)))
                  ELSE again(d)
             ELSE IF found.name \in d.matchs THEN again(d)
             ELSE LET r == unmarshalValue(h, found.value, field.value, order)
                  IN  again([v |-> [d.v EXCEPT !.fields[i].value = r.v],
                             panic |-> r.panic,
                             matchs |-> d.matchs \cup {found.name}])

\* unmarshalTable, with unmarshalMap and unmarshalStruct; a map of the model
\* has strings as order.
unmarshalTable(h, a, v, order) ==
    CASE v.kind = "map" ->
            LET inTable(k) == k \in DOMAIN h[a].Elems
            IN  unmarshalMapElems(h, a, v, order, SelectSeq(order, inTable), <<>>)
      [] v.kind = "struct" ->
            LET decoded(d) == [v |-> d.v, panic |-> d.panic]
            IN  decoded(unmarshalStructNested(h, a, [v |-> v, panic |-> NoError,
                                                     matchs |-> {}], 1, order))
      [] v.kind = "interface" -> Set(v, Interface(h, TablePtr(a)))
      [] OTHER -> Throw(v, UnmarshalTypeError(Chars("table"), v.kind))

\* Unmarshal once parse has returned the tree: v is the argument, and the
\* result the argument as Unmarshal leaves it and the error it returns, which
\* the deferred catchError makes of a panic of the decoder.
unmarshalRoot(h, v, order) ==
    IF v.kind # "ptr" \/ IsNil(v) THEN [v |-> v, err |-> InvalidUnmarshalError(v.kind)]
    ELSE LET decoded(r) == [v |-> PtrTo(r.v), err |-> r.panic]
         IN  decoded(unmarshalTable(h, Root, v.elem, order))

(***************************************************************************)
(* Documents                                                               *)
(***************************************************************************)

\* The lines of a document, each ended by a newline.
Lines(stmts) == Concat([i \in DOMAIN stmts |-> Chars(stmts[i]) \o <<"\n">>])

\* Documents that go through every production of the lexer.
LexDocs ==
    { Chars("# c\na = \"b\\n\\u0041\" # d\n"),
      Chars("s = \"\"\"\na\\\n   b\"\"\"\nt = 'l'\nu = '''\nxy'''\n"),
      Chars("f = 1.5e+3\ng = 1e6\ni = -1_0\nh = 6.0_2E2_3\n"),
      Chars("d = 1979-05-27T07:32:00.5-07:00\ne = 1979-05-27\nz = 1979-05-27T07:32:00Z\n"),
      Chars("[\"q r\" . k ]\nb = true\n[[\"x\"]]\n\"k\" = false\n'l' = 1\n") }

MaxStmts == 3

\* The statements the structural documents are made of.
Stmts ==
    { "a = 1", "b = \"s\"", "[a]", "[a.b]", "[[a]]", "[[a.b]]", "a = [1]",
      "a = {b = 1}" }

StmtDocs == {Lines(s) : s \in UNION {[1..n -> Stmts] : n \in 1..MaxStmts}}

MaxElems == 3

\* The elements the arrays are made of.
ArrayElems == {"1", "2.5", "\"s\"", "true", "[1]", "{a = 1}", "1979-05-27"}

\* x = [e1, e2, ...]
ArrayDoc(elems) ==
    Chars("x = [")
    \o Concat([i \in DOMAIN elems |->
                  (IF i = 1 THEN <<>> ELSE Chars(", ")) \o Chars(elems[i])])
    \o Chars("]\n")

ArraySeqs == UNION {[1..n -> ArrayElems] : n \in 0..MaxElems}

ArrayDocs == {ArrayDoc(s) : s \in ArraySeqs}

MaxHeaders == 4

\* The statements the documents of headers are made of.
Headers == {"[a.b]", "[[a]]", "[a]", "x = 1"}

HeaderSeqs == UNION {[1..n -> Headers] : n \in 1..MaxHeaders}

HeaderDocs == {Lines(s) : s \in HeaderSeqs}

\* What comes before the sections [a.b] and [a.b.c], and their bodies.
OrderCases ==
    [pre : {"", "[a]\n", "[[a]]\n", "[a.b.c.d]\n"},
     ab : {"", "x = 1\n"},
     abc : {"", "y = 2\n", "x = 3\n"}]

\* The document of a case, with the section [a.b] first or second.
OrderDoc(o, abFirst) ==
    Chars(o.pre)
    \o (IF abFirst THEN Chars("[a.b]\n") \o Chars(o.ab) \o Chars("[a.b.c]\n") \o Chars(o.abc)
        ELSE Chars("[a.b.c]\n") \o Chars(o.abc) \o Chars("[a.b]\n") \o Chars(o.ab))

OrderDocs == {OrderDoc(o, TRUE) : o \in OrderCases}

\* parse on a document, then parse on the document with its two sections in
\* the other order.
Reorder ==
    /\ pc = "done"
    /\ run = "first"
    /\ \E o \in OrderCases : doc = OrderDoc(o, TRUE) /\ StartParse(OrderDoc(o, FALSE))
    /\ first' = [ret |-> ret,
                 tree |-> IF ret.tree # 0 THEN Tree(heap, TablePtr(Root)) ELSE <<>>,
                 value |-> <<>>, out |-> NoOutput]
    /\ run' = "reordered"
    /\ UNCHANGED <<enc, ahead, goroutines, parsers, doc, given, results>>

(***************************************************************************)
(* Marshal called on Go values                                             *)
(***************************************************************************)

NoValue == [kind |-> Nil]

GoBool(b) == [kind |-> "bool", v |-> b]
GoInt(digits) == [kind |-> "int64", v |-> ParseInt(Chars(digits)).v]
GoFloat(f) == [kind |-> "float64", v |-> f]
GoString(str0) == [kind |-> "string", v |-> Chars(str0)]
GoTime(str0) == [kind |-> "time.Time", v |-> ParseRFC3339(Chars(str0)).v]
GoSlice(elems) == [kind |-> "slice", v |-> elems]
GoMap1(k, x) == [kind |-> "map", v |-> MapSet(<<>>, Chars(k), x)]
GoMap2(k1, x1, k2, x2) ==
    [kind |-> "map", v |-> MapSet(MapSet(<<>>, Chars(k1), x1), Chars(k2), x2)]
GoStruct(fields) == [kind |-> "struct", fields |-> fields]
\* A field of a struct: its name, its toml tag, whether it is embedded.
GoField(name, tag, anonymous, x) ==
    [Name |-> Chars(name), tag |-> Chars(tag), Anonymous |-> anonymous, value |-> x]

\* The values that are elements of slices and values of keys.
EmitElems ==
    << GoBool(TRUE), GoInt("1"), GoFloat(ParseFloat(<<>>, <<"1">>, <<"5">>, <<>>, <<>>).v),
       GoFloat(NaN), GoFloat(Inf(FALSE)), GoFloat(Inf(TRUE)), GoString("s"),
       GoTime("1979-05-27T07:32:00Z"), GoSlice(<<GoInt("1")>>), GoSlice(<<GoString("s")>>),
       GoMap1("a", GoInt("1")), GoStruct(<<GoField("A", "", FALSE, GoInt("1"))>>),
       GoMap2("k", GoInt("1"), "t", GoMap1("a", GoInt("1"))) >>

\* The fields a struct is made of.
EmitFields ==
    << GoField("A", "", FALSE, GoInt("1")),
       GoField("B", "A", FALSE, GoString("s")),
       GoField("C", "A,omitempty", FALSE, GoInt("0")),
       GoField("a", "", FALSE, GoInt("1")),
       GoField("D", "-", FALSE, GoInt("1")),
       GoField("E", "", TRUE, GoStruct(<<GoField("A", "", FALSE, GoBool(TRUE))>>)),
       GoField("F", "", TRUE, PtrTo(GoStruct(<<GoField("G", "A", FALSE, GoBool(TRUE))>>))),
       GoField("H", "", TRUE, NilPtr("struct")),
       GoField("T", "A", FALSE, GoMap1("x", GoInt("1"))),
       GoField("S", "A,inline", FALSE, GoStruct(<<GoField("X", "", FALSE, GoInt("1")),
                                                   GoField("Y", "X", FALSE, GoInt("2"))>>)),
       GoField("L", "A", FALSE, GoSlice(<<GoMap1("x", GoInt("1"))>>)),
       GoField("N", "A", FALSE, NilPtr("int64")),
       GoField("M", "m,inline", FALSE, GoMap1("x", GoInt("1"))),
       GoField("V", "v,inline", FALSE, GoStruct(<<GoField("A", "", FALSE, GoInt("1")),
                                                   GoField("B", "", FALSE, GoString("s"))>>)),
       GoField("W", "w,inline", FALSE, GoMap2("a", GoInt("1"), "b", GoMap1("c", GoInt("2")))),
       GoField("Q", "q,inline", FALSE, GoMap1("l", GoSlice(<<GoMap1("y", GoInt("1"))>>))) >>

\* The tags of a string field that ask for a literal string, and the
\* strings of such a field: plain, with single quotes, with newlines, empty,
\* and with a rune above 0x7f.
StringTags == <<"s,literal", "s,multiline,literal", "s,literal,multiline", "s,literal,ascii">>

EmitStrings ==
    << Chars("ab"), Chars("a'b"), Chars("a''b"), Chars("a'''b"), Chars("a\nb"),
       Chars("a\r\nb"), Chars("a\rb"), Chars("'"), Chars("\n"), Chars("a\n'b"), <<>>,
       Chars("a\"b"), <<"a", ByteTok(195), ByteTok(169)>> >>

StringField(tag, str0) == [GoField("S", tag, FALSE, GoString("")) EXCEPT !.value.v = str0]

\* The length of the longest slice and the number of fields of the largest
\* struct.
MaxLen == 2

\* The first n of the elements of from that idx picks.
Pick(from, idx, n) == [k \in 1..n |-> from[idx[k]]]

\* The values that are no tables.
NoTables == <<PtrTo(GoMap1("x", GoInt("1"))), NilPtr("map"), GoInt("1")>>

\* The values Marshal is called on: a map of one key, of a slice, of two
\* keys, a struct with an inline slice, a struct, a struct with a string to
\* be written as a literal, and values that are no tables.
IsGoValue(g) ==
    \/ \E i \in DOMAIN EmitElems : g = GoMap1("x", EmitElems[i])
    \/ \E n \in 0..MaxLen : \E idx \in [1..MaxLen -> DOMAIN EmitElems] :
          g = GoMap1("x", GoSlice(Pick(EmitElems, idx, n)))
    \/ \E i, j \in DOMAIN EmitElems : g = GoMap2("a", EmitElems[i], "b", EmitElems[j])
    \/ \E n \in 0..MaxLen : \E idx \in [1..MaxLen -> DOMAIN EmitElems] :
          g = GoStruct(<<GoField("X", "x,inline", FALSE, GoSlice(Pick(EmitElems, idx, n)))>>)
    \/ \E n \in 0..MaxLen : \E idx \in [1..MaxLen -> DOMAIN EmitFields] :
          g = GoStruct(Pick(EmitFields, idx, n))
    \/ \E i \in DOMAIN StringTags : \E j \in DOMAIN EmitStrings :
          g = GoStruct(<<StringField(StringTags[i], EmitStrings[j])>>)
    \/ \E i \in DOMAIN NoTables : g = NoTables[i]

MaxCalls == 2

\* A caller calls Marshal(given); the emitter ranges over every map in the
\* order the runtime yields.
MarshalValue ==
    /\ pc = "marshal"
    /\ Len(results) < MaxCalls
    /\ \E g \in Ranged(given) :
       \E out \in {Marshal(g)} : results' = Append(results, out)
    /\ UNCHANGED <<enc, ahead, goroutines, parsers, doc, given, run, first, input, mark, pos, line, backups, heap, envs,
                   keys, names, str, num, scanners, err, scanner, panicv, pc, ret>>

EmitInit ==
    /\ IsGoValue(given)
    /\ results = <<>>
    /\ doc = <<>>
    /\ run = "marshal"
    /\ first = NoFirst
    /\ input = <<>>
    /\ mark = -1 /\ pos = 0 /\ line = 1 /\ backups = <<>>
    /\ heap = <<NewTable(FALSE)>>
    /\ envs = <<[env |-> Root, path |-> <<>>]>>
    /\ keys = <<>> /\ names = <<>>
    /\ str = newParser(<<>>).str /\ num = newParser(<<>>).num
    /\ scanners = <<>> /\ err = NoError
    /\ scanner = Nil
    /\ panicv = NoError
    /\ pc = "marshal"
    /\ ret = NoResult
    /\ goroutines = <<>> /\ parsers = <<>> /\ ahead = Nil /\ enc = Nil

EmitNext == MarshalValue

EmitSpec == EmitInit /\ [][EmitNext]_vars

(***************************************************************************)
(* Encoder: documents written to a stream.  The stream is an io.Writer of  *)
(* the caller; a call of Write takes the bytes or fails with an error      *)
(* after some of them.                                                     *)
(***************************************************************************)

\* The errors a Write of the stream fails with.
WriteErrors ==
    { [kind |-> "io.Error", Err |-> "short write"],
      [kind |-> "io.Error", Err |-> "closed pipe"] }

\* What a call of Write can do: take all of b and return nil, or take the
\* first n bytes and return an error.
Writes(b) ==
    {[n |-> Len(b), err |-> NoError]}
        \cup {[n |-> k, err |-> e] : k \in {0, Len(b) \div 2}, e \in WriteErrors}

\* w.Write(b) with the outcome wr: the bytes taken are on the stream.
Write(w, b, wr) == w \o SubSeq(b, 1, wr.n)

\* NewEncoder(w)
NewEncoder(w) == [w |-> w, err |-> NoError]

\* Encode that writes whatever an earlier Write returned.
EncodeAnyway(e0, out, wr) ==
    IF out.err # NoError THEN [enc |-> e0, err |-> out.err]
    ELSE [enc |-> [w |-> Write(e0.w, out.b, wr), err |-> wr.err], err |-> wr.err]

\* enc.Encode(v), where out is what Marshal(v) returns and wr what the
\* Write of the stream does if it is called: the encoder and the error
\* returned.
Encode(e0, out, wr) ==
    IF e0.err # NoError THEN [enc |-> e0, err |-> e0.err]
    ELSE IF out.err # NoError THEN [enc |-> e0, err |-> out.err]
    ELSE [enc |-> [w |-> Write(e0.w, out.b, wr), err |-> wr.err], err |-> wr.err]

\* The values Encode is called on: two that Marshal writes, one that is no
\* table and one with an array of mixed types.
EncValues ==
    << GoMap1("x", GoInt("1")), GoStruct(<<GoField("A", "", FALSE, GoString("s"))>>),
       GoInt("1"), GoMap1("x", GoSlice(<<GoInt("1"), GoString("s")>>)) >>

\* The number of calls of Encode on the encoder.
MaxEncodes == 3

\* A caller calls enc.Encode(v): given is v, and results holds what each
\* call wrote to the stream and returned.
EncoderEncode ==
    /\ pc = "encode"
    /\ Len(results) < MaxEncodes
    /\ \E n \in DOMAIN EncValues :
       \E g \in Ranged(EncValues[n]) :
       \E out \in {Marshal(g)} :
       \E wr \in Writes(out.b) :
       \E r \in {Encode(enc, out, wr)} :
              /\ given' = EncValues[n]
              /\ enc' = r.enc
              /\ results' = Append(results, [b |-> SubSeq(r.enc.w, Len(enc.w) + 1, Len(r.enc.w)),
                                             err |-> r.err])
    /\ UNCHANGED <<ahead, goroutines, parsers, doc, run, first, input, mark, pos, line, backups, heap,
                   envs, keys, names, str, num, scanners, err, scanner, panicv, pc, ret>>

EncInit ==
    /\ enc = NewEncoder(<<>>)
    /\ given = NoValue
    /\ results = <<>>
    /\ doc = <<>>
    /\ run = "encode"
    /\ first = NoFirst
    /\ input = <<>>
    /\ mark = -1 /\ pos = 0 /\ line = 1 /\ backups = <<>>
    /\ heap = <<NewTable(FALSE)>>
    /\ envs = <<[env |-> Root, path |-> <<>>]>>
    /\ keys = <<>> /\ names = <<>>
    /\ str = newParser(<<>>).str /\ num = newParser(<<>>).num
    /\ scanners = <<>> /\ err = NoError
    /\ scanner = Nil
    /\ panicv = NoError
    /\ pc = "encode"
    /\ ret = NoResult
    /\ goroutines = <<>> /\ parsers = <<>> /\ ahead = Nil

EncNext == EncoderEncode

EncSpec == EncInit /\ [][EncNext]_vars

\* Documents with keys in inline tables.
InlineDocs ==
    { Chars("a = {b = 1, b = \"s\"}\n"),
      Chars("a = {b = 1, c = 2}\nb = 3\n"),
      Chars("a = {b = {c = 1}, \"b\" = 2}\n"),
      Chars("[t]\nk = {}\n\n'k' = 1\n") }

\* The keys of the documents of one key, as they are written in a document:
\* a bare key, and quoted keys with a space, a dot, a quote, a backslash, no
\* character at all, control characters and a rune above 0x7f.
KeyTexts ==
    { Chars("a-B_1"), Chars("\"a b\""), Chars("\"a.b\""), Chars("\"a\\\"b\""),
      Chars("\"a\\\\b\""), Chars("\"\""), Chars("\"\\u0001\""), Chars("\"\\t\""),
      Chars("\"\\b\""), Chars("\"\\u007f\""),
      <<"\"", ByteTok(195), ByteTok(169), "\"">> }

\* key = 1, and [key]
KeyDocs ==
    {k \o Chars(" = 1\n") : k \in KeyTexts} \cup {<<"[">> \o k \o Chars("]\n") : k \in KeyTexts}

\* Arrays of the integers 1 and 2 with a newline after the bracket, after
\* the comma, before the comma and before the closing bracket, each with the
\* number of its elements.
NewlineArrays ==
    { <<"x = [\n1, 2]\n", 2>>, <<"x = [1,\n2]\n", 2>>, <<"x = [1,\r\n2]\n", 2>>,
      <<"x = [1, 2,\n]\n", 2>>, <<"x = [\n]\n", 0>>, <<"x = [ # c\n1 # c\n]\n", 1>>,
      <<"x = [1\n, 2]\n", 2>>, <<"x = [1, 2\n]\n", 2>>, <<"x = [1\n]\n", 1>>,
      <<"x = [1 \n ]\n", 1>>, <<"x = [\"s\"\n]\n", 1>> }

NewlineArrayDocs == {Chars(c[1]) : c \in NewlineArrays}

\* Datetimes with the zone Z, with an offset of each sign, and each with a
\* fraction of a second.
Datetimes ==
    { "1979-05-27T07:32:00Z", "1979-05-27T07:32:00-07:00", "1979-05-27T07:32:00+07:00",
      "1979-05-27T00:32:00.5Z", "1979-05-27T00:32:00.999999-07:00",
      "1979-05-27T00:32:00.25+00:30" }

\* d = datetime
DatetimeDoc(t) == Chars("d = ") \o Chars(t) \o <<"\n">>

DatetimeDocs == {DatetimeDoc(t) : t \in Datetimes}

\* Integers with underscores between digits and elsewhere, and integers at
\* and beyond the ends of the signed 64-bit range.
IntLiterals ==
    { "3_456", "1_2_3", "-1_0", "+1_000", "0", "-0", "0_1",
      "_1", "1_", "1__2", "+_1", "-1_", "1_a", "1_ 2",
      "9223372036854775807", "+9223372036854775807", "9223372036854775808",
      "-9223372036854775808", "-9223372036854775809", "9_223_372_036_854_775_808",
      "-9_223_372_036_854_775_808", "18446744073709551616", "18446744073709551617",
      "99999999999999999999" }

\* i = integer
IntDoc(l) == Chars("i = ") \o Chars(l) \o <<"\n">>

IntDocs == {IntDoc(l) : l \in IntLiterals}

\* Floats with an exponent, signed or not, after a fraction and after the
\* integer part, each with the decimal digits and the decimal exponent of the
\* number it denotes (0.d1d2... * 10^dp).
FloatLiterals ==
    { <<"1.0e-5", "1", -4>>, <<"1.0e+5", "1", 6>>, <<"1.0e5", "1", 6>>,
      <<"2.5E-1", "25", 0>>, <<"-1.5e+2", "15", 3>>,
      <<"1e5", "1", 6>>, <<"1E5", "1", 6>>, <<"1e-5", "1", -4>>, <<"1e+5", "1", 6>>,
      <<"2E-1", "2", 0>>, <<"-3E+2", "3", 3>>, <<"1_0e-1_0", "1", -8>> }

\* f = float
FloatDoc(l) == Chars("f = ") \o Chars(l) \o <<"\n">>

FloatDocs == {FloatDoc(c[1]) : c \in FloatLiterals}

\* The text between the opening and the closing """ of multi-line basic
\* strings: with a newline after the opening quotes, with backslashes at the
\* end of a line, and with newlines, spaces and tabs that no backslash
\* precedes.
MultiLineBodies ==
    { "ab", "\nab", "\r\nab", "\n\nab", "a\nb", "a \n\tb", "a\\\nb", "a\\\n  b",
      "a\\\n\n \t\n b", "a\\\r\n \r\n b", "\na \\\n   b\\\n c\n", "a\\\n", "\n",
      "", "\n\\\n a", "a\r\nb" }

\* The text between the opening and the closing """ with quotes in it: one
\* and two at its end, at its start and inside.
QuoteBodies ==
    { "a\"", "a\"\"", "\"a", "\"\"a", "a\"b\"\"c", "\na\"\"\n\"", "\"", "\"\"" }

\* s = """body"""
MultiLineDoc(body) == Chars("s = \"\"\"") \o Chars(body) \o Chars("\"\"\"\n")

MultiLineDocs == {MultiLineDoc(b) : b \in MultiLineBodies \cup QuoteBodies}

\* Documents whose second statement binds the key of the first again, with
\* the line breaks \n, \r\n and \r between the statements and inside the
\* multi-line strings of the first.
LineBreakDocs ==
    { Chars("s = 1\ns = 2\n"), Chars("s = 1\r\ns = 2\r\n"), Chars("s = 1\rs = 2\r"),
      Chars("\n\r\n\rs = 1 # c\n\ns = 2\n"),
      Chars("s = \"\"\"a\nb\"\"\"\ns = 2\n"), Chars("s = \"\"\"\na\r\nb\n\"\"\"\ns = 2\n"),
      Chars("s = '''a\nb'''\ns = 2\n"), Chars("s = '''\na\n\nb'''\ns = 2\n"),
      Chars("s = \"\"\"a\\\n\n  b\"\"\"\ns = 2\n"), Chars("s = [\n1,\n2\n]\n"),
      Chars("s = \"a\nb\"\n"), Chars("s = {\n}\n") }

\* Byte sequences that are not UTF-8: a byte that starts no rune, a
\* continuation byte, a rune cut short, an overlong encoding and a surrogate;
\* and two that are: U+00E9 and U+FFFD.
InvalidBytes ==
    { <<ByteTok(255)>>, <<ByteTok(128)>>, <<ByteTok(195)>>, <<ByteTok(226), ByteTok(130)>>,
      <<ByteTok(192), ByteTok(128)>>, <<ByteTok(237), ByteTok(160), ByteTok(128)>> }

ValidBytes == { <<ByteTok(195), ByteTok(169)>>, <<ByteTok(239), ByteTok(191), ByteTok(189)>> }

\* The documents with the bytes b in a string of each kind, in a key, in the
\* name of a table, in a comment, between tokens, and after a NUL byte.
BytesDocs(b) ==
    { Chars("s = \"a") \o b \o Chars("\"\n"),
      Chars("s = 'a") \o b \o Chars("'\n"),
      Chars("s = \"\"\"a") \o b \o Chars("\"\"\"\n"),
      Chars("s = '''a") \o b \o Chars("'''\n"),
      Chars("s = [\"") \o b \o Chars("\"]\n"),
      Chars("\"k") \o b \o Chars("\" = 1\n"),
      Chars("k") \o b \o Chars(" = 1\n"),
      Chars("[\"t") \o b \o Chars("\"]\n"),
      Chars("[t") \o b \o Chars("]\n"),
      Chars("# c") \o b \o Chars("\ns = 1\n"),
      Chars("s = 1 # c") \o b,
      Chars("s = ") \o b \o Chars("\n"),
      Chars("s = 1 ") \o b \o Chars("\n"),
      Chars("s = 1\n") \o b,
      b \o Chars("s = 1\n"),
      Chars("s = 1\n") \o <<NUL>> \o b \o Chars("\n"),
      <<NUL>> \o b }

Utf8Docs == UNION {BytesDocs(b) : b \in InvalidBytes \cup ValidBytes}

(***************************************************************************)
(* Integers for Unmarshal, and the Go values they are stored in            *)
(***************************************************************************)

\* The kinds of integers of 8 bits and more, of 16 bits and more, and so on.
SignedOf(bits) == {k \in IntKinds : BitSize(k) >= bits}
UnsignedOf(bits) == {k \in UintKinds : BitSize(k) >= bits}

\* Integers at the ends of the ranges of the kinds of Go, each with the
\* kinds whose range holds it.
DecodeInts ==
    << <<"0", SignedOf(8) \cup UnsignedOf(8)>>,
       <<"1", SignedOf(8) \cup UnsignedOf(8)>>,
       <<"127", SignedOf(8) \cup UnsignedOf(8)>>,
       <<"128", SignedOf(16) \cup UnsignedOf(8)>>,
       <<"255", SignedOf(16) \cup UnsignedOf(8)>>,
       <<"256", SignedOf(16) \cup UnsignedOf(16)>>,
       <<"257", SignedOf(16) \cup UnsignedOf(16)>>,
       <<"300", SignedOf(16) \cup UnsignedOf(16)>>,
       <<"-1", SignedOf(8)>>,
       <<"-128", SignedOf(8)>>,
       <<"-129", SignedOf(16)>>,
       <<"32767", SignedOf(16) \cup UnsignedOf(16)>>,
       <<"32768", SignedOf(32) \cup UnsignedOf(16)>>,
       <<"-32768", SignedOf(16)>>,
       <<"-32769", SignedOf(32)>>,
       <<"65535", SignedOf(32) \cup UnsignedOf(16)>>,
       <<"65536", SignedOf(32) \cup UnsignedOf(32)>>,
       <<"2147483647", SignedOf(32) \cup UnsignedOf(32)>>,
       <<"2147483648", SignedOf(64) \cup UnsignedOf(32)>>,
       <<"-2147483648", SignedOf(32)>>,
       <<"-2147483649", SignedOf(64)>>,
       <<"4294967295", SignedOf(64) \cup UnsignedOf(32)>>,
       <<"4294967296", SignedOf(64) \cup UnsignedOf(64)>>,
       <<"9223372036854775807", SignedOf(64) \cup UnsignedOf(64)>>,
       <<"-9223372036854775808", SignedOf(64)>> >>

\* Documents of more than one integer, of a table and of a boolean.
DecodeTables ==
    { Chars("i = 300\nj = -1\n"), Chars("j = 1\ni = 256\n"), Chars("I = 1\ni = 128\n"),
      Chars("[t]\ni = 256\n"), Chars("i = true\n"), Chars("i = 1\ni = 2\n") }

DecodeDocs == {IntDoc(DecodeInts[n][1]) : n \in DOMAIN DecodeInts} \cup DecodeTables

GoMapOf(elemKind) == [kind |-> "map", elemKind |-> elemKind, v |-> <<>>]

\* struct { I kind }
StructOfKind(kind) == GoStruct(<<GoField("I", "", FALSE, Zero(kind))>>)

IntKindSeq ==
    <<"int8", "int16", "int32", "int64", "int", "uint8", "uint16", "uint32", "uint64", "uint">>

\* The arguments of Unmarshal: pointers to a struct with a field I, first
\* of each kind of integers, then a string, an interface{}, pointers,
\* fields with tags, an embedded struct, a struct for the table t; pointers
\* to maps; and what is no pointer to a variable.
Targets ==
    [n \in DOMAIN IntKindSeq |-> PtrTo(StructOfKind(IntKindSeq[n]))]
    \o << PtrTo(StructOfKind("string")),
          PtrTo(StructOfKind("interface")),
          PtrTo(GoStruct(<<GoField("I", "", FALSE, NilPtr("int8"))>>)),
          PtrTo(GoStruct(<<GoField("I", "", FALSE, PtrTo(PtrTo(Zero("uint16"))))>>)),
          PtrTo(GoStruct(<<GoField("A", "i", FALSE, Zero("int16")),
                           GoField("B", "i", FALSE, Zero("int8")),
                           GoField("J", "", FALSE, Zero("uint8"))>>)),
          PtrTo(GoStruct(<<GoField("A", "-", FALSE, Zero("int8")),
                           GoField("i", "", FALSE, Zero("int8")),
                           GoField("J", "j,omitempty", FALSE, Zero("int32"))>>)),
          PtrTo(GoStruct(<<GoField("Inner", "", TRUE, StructOfKind("uint8")),
                           GoField("J", "", FALSE, Zero("int8"))>>)),
          PtrTo(GoStruct(<<GoField("T", "", FALSE, StructOfKind("uint8"))>>)),
          PtrTo(GoStruct(<<GoField("T", "", FALSE, GoMapOf("int16"))>>)),
          PtrTo(GoMapOf("int8")),
          PtrTo(GoMapOf("uint16")),
          PtrTo(GoMapOf("interface")),
          PtrTo(Zero("interface")),
          PtrTo(Zero("int8")),
          StructOfKind("int8"),
          NilPtr("int8") >>

\* Headers followed by inline tables and arrays inside one another.
EnvDocs ==
    { Chars("[t]\nx = {a = [[1], [2]], b = {}}\n"),
      Chars("[[t]]\nx = [{a = 1}, {}]\n[[t]]\ny = { }\n"),
      Chars("x = [[1], [2, 3]]\n[a.b]\ny = {c = {d = 1}}\n"),
      Chars("x = [{a = 1}, 2]\n"),
      Chars("x = [[1], {}]\ny = 1\n"),
      Chars("x = {a = [1}\n"),
      Chars("x = {a = {b = 1}, a = 2}\n") }

\* The trees of tables and of arrays written between braces and brackets.
TableOf(elems) == [type |-> "table", Implicit |-> FALSE, Elems |-> elems]
ArrayOf(elems) == [type |-> "array", Closed |-> TRUE, Elems |-> elems]
IntOf(digits) == Integer(ParseInt(Chars(digits)).v)
Key1(k, x) == MapSet(<<>>, Chars(k), x)
Key2(k1, x1, k2, x2) == MapSet(Key1(k1, x1), Chars(k2), x2)

\* Inline tables and arrays inside one another, each document with the
\* tree that its text denotes.
NestDocs ==
    << <<Chars("a = {b = {c = 1, d = [2, 3]}, e = 4}\n"),
         TableOf(Key1("a", TableOf(Key2("b", TableOf(Key2("c", IntOf("1"),
                                                          "d", ArrayOf(<<IntOf("2"), IntOf("3")>>))),
                                        "e", IntOf("4")))))>>,
       <<Chars("a = [[1, 2], [3]]\nb = 5\n"),
         TableOf(Key2("a", ArrayOf(<<ArrayOf(<<IntOf("1"), IntOf("2")>>),
                                     ArrayOf(<<IntOf("3")>>)>>),
                      "b", IntOf("5")))>>,
       <<Chars("a = [{b = 1, c = {d = 2}}, {b = 3}]\n"),
         TableOf(Key1("a", ArrayOf(<<TableOf(Key2("b", IntOf("1"),
                                                   "c", TableOf(Key1("d", IntOf("2"))))),
                                     TableOf(Key1("b", IntOf("3")))>>)))>>,
       <<Chars("a = {b = [{c = [1]}]}\n[t]\nu = {v = 6}\n"),
         TableOf(Key2("a", TableOf(Key1("b", ArrayOf(<<TableOf(Key1("c",
                                                        ArrayOf(<<IntOf("1")>>)))>>))),
                      "t", TableOf(Key1("u", TableOf(Key1("v", IntOf("6")))))))>> >>

NestedDocs == {NestDocs[n][1] : n \in DOMAIN NestDocs}

\* An inline table or an array bound under the key a, then a header that
\* leads through it or ends at it: each document with the tree written for a.
FrozenDocs ==
    << <<Chars("a = {x = 1}\n[a.b]\ny = 2\n"), TableOf(Key1("x", IntOf("1")))>>,
       <<Chars("a = {x = 1}\n[a]\ny = 2\n"), TableOf(Key1("x", IntOf("1")))>>,
       <<Chars("a = {x = 1}\n[[a.b]]\n"), TableOf(Key1("x", IntOf("1")))>>,
       <<Chars("a = {x = 1}\n[[a]]\n"), TableOf(Key1("x", IntOf("1")))>>,
       <<Chars("a = {x = {}}\n[a.x]\n"), TableOf(Key1("x", TableOf(<<>>)))>>,
       <<Chars("a = {x = {}}\n[a.x.y]\nz = 1\n"), TableOf(Key1("x", TableOf(<<>>)))>>,
       <<Chars("a = {}\n[a.b.c]\n"), TableOf(<<>>)>>,
       <<Chars("a = [{x = 1}]\n[a.b]\n"), ArrayOf(<<TableOf(Key1("x", IntOf("1")))>>)>>,
       <<Chars("a = [{x = 1}]\n[[a]]\n"), ArrayOf(<<TableOf(Key1("x", IntOf("1")))>>)>>,
       <<Chars("a = []\n[[a]]\n"), ArrayOf(<<>>)>>,
       <<Chars("a = [1]\n[a]\n"), ArrayOf(<<IntOf("1")>>)>>,
       <<Chars("a = {x = 1}\n[b]\ny = 2\n"), TableOf(Key1("x", IntOf("1")))>> >>

FrozenTexts == {FrozenDocs[n][1] : n \in DOMAIN FrozenDocs}

\* Documents of valid UTF-8 with the byte 0x00 in them.
NulDocs ==
    { <<NUL>>,
      Chars("s = 1\n") \o <<NUL>> \o Chars("t = 2\n"),
      <<NUL>> \o Chars("s = 1\n"),
      Chars("# c") \o <<NUL>> \o Chars("s = 1\n"),
      Chars("s = 1 # c") \o <<NUL>> \o Chars("\nt = _\n"),
      Chars("s = 1") \o <<NUL>> \o Chars("\n"),
      Chars("s = 1 ") \o <<NUL>> \o Chars("t = 2\n"),
      Chars("s = \"a") \o <<NUL>> \o Chars("b\"\n"),
      Chars("s = 'a") \o <<NUL>> \o Chars("b'\n"),
      Chars("s") \o <<NUL>> \o Chars(" = 1\n"),
      Chars("[t]") \o <<NUL>> \o Chars("\ns = 1\n"),
      Chars("s = [1,") \o <<NUL>> \o Chars("2]\n") }

\* Malformed documents that end where a scanner has values still pending: a
\* sign without digits, a closing bracket without an opening one, an escape,
\* a key, a header or a number cut short.
MalformedDocs ==
    { Chars("x = +\n"), Chars("x = -"), Chars("x = +_1\n"), Chars("x = 1_\n"),
      Chars("x = 1.\n"), Chars("x = 1e\n"), Chars("]\n"), Chars("x = 1]\n"),
      Chars("x = }\n"), Chars("x = [1,"), Chars("x = {a = 1,"), Chars("x = \"a\\"),
      Chars("x = \"\"\"a\\"), Chars("x"), Chars("= 1\n"), Chars("["), Chars("[[a]"),
      Chars("[a.]\n"), Chars("x = 1979-05-27T\n"), Chars("x = \"\\u00\"\n") }

\* Documents that end in each kind of value, key and header, with and
\* without a last newline.
LoopDocs ==
    { Chars("[\"a\".b]\nx = \"s\""), Chars("\"k\" = 'l'\n"), Chars("x = \"\"\"a\\\n  b\"\"\""),
      Chars("x = '''a\nb'''\n"), Chars("x = 1.5e+3"), Chars("x = 1E5\n"), Chars("x = 1.5"),
      Chars("x = 1979-05-27T07:32:00.5Z\n"), Chars("x = 1979-05-27T07:32:00Z"),
      Chars("x = 1979-05-27"), Chars("x = 1979-05-27T07:32:00-07:00\n"), Chars("# c"), Chars("x = [1, 2] # c\n\n"), Chars(" ") }

Docs ==
    LexDocs \cup StmtDocs \cup ArrayDocs \cup HeaderDocs \cup OrderDocs \cup InlineDocs
    \cup KeyDocs \cup NewlineArrayDocs \cup DatetimeDocs \cup IntDocs \cup FloatDocs
    \cup MultiLineDocs \cup LineBreakDocs \cup Utf8Docs \cup DecodeDocs
    \cup EnvDocs \cup NestedDocs \cup FrozenTexts \cup NulDocs \cup MalformedDocs
    \cup LoopDocs

Init ==
    /\ doc \in Docs
    /\ given = NoValue
    /\ results = <<>>
    /\ run = "first"
    /\ first = NoFirst
    /\ input = doc
    /\ mark = -1 /\ pos = 0 /\ line = 1 /\ backups = <<>>
    /\ heap = <<NewTable(FALSE)>>
    /\ envs = <<[env |-> Root, path |-> <<>>]>>
    /\ keys = <<>> /\ names = <<>>
    /\ str = newParser(doc).str /\ num = newParser(doc).num
    /\ scanners = <<>> /\ err = NoError
    /\ scanner = "scanTop"
    /\ panicv = NoError
    /\ pc = "loop"
    /\ ret = NoResult
    /\ goroutines = <<>> /\ parsers = <<>> /\ ahead = Nil /\ enc = Nil

\* The keys of every table of the heap.
AllKeys(h) == UNION {DOMAIN h[a].Elems : a \in {b \in DOMAIN h : h[b].kind = "table"}}

\* Unmarshal(data, v): parse has returned; its error is returned, or its
\* tree is stored in v. A range over a map goes in any order.
Unmarshal ==
    /\ pc = "done"
    /\ run = "first"
    /\ doc \in DecodeDocs
    /\ \E n \in DOMAIN Targets :
       \E order \in IF ret.tree = 0 THEN {<<>>} ELSE Perms(AllKeys(heap)) :
              /\ given' = Targets[n]
              /\ results' = <<IF ret.tree = 0 THEN [v |-> Targets[n], err |-> ret.err]
                              ELSE unmarshalRoot(heap, Targets[n], order)>>
    /\ run' = "decoded"
    /\ UNCHANGED <<enc, ahead, goroutines, parsers, doc, first, input, mark, pos, line, backups, heap, envs, keys, names, str,
                   num, scanners, err, scanner, panicv, pc, ret>>

Next == ScanStep \/ parseReturn \/ errRecover \/ MarshalTree \/ Reorder \/ Unmarshal

Spec == Init /\ [][Next]_vars

(***************************************************************************)
(* Calls of parse on goroutines of their own                               *)
(***************************************************************************)

\* scanner(p): the scanner functions by their names. scanColon, scanHash
\* and scanRecord0 are variables of the package, set once to closures over
\* a byte or an offset, and read by every parser.
callScanner(name, p) ==
    CASE name = "scanTop" -> scanTop(p)
      [] name = "scanTopEnd" -> scanTopEnd(p)
      [] name = "scanComment" -> scanComment(p)
      [] name = "scanTableStart" -> scanTableStart(p)
      [] name = "scanTableNameStart" -> scanTableNameStart(p)
      [] name = "scanTableNameInside" -> scanTableNameInside(p)
      [] name = "scanTableNameEnd" -> scanTableNameEnd(p)
      [] name = "scanTableNameString" -> scanTableNameString(p)
      [] name = "scanByteRBracket" -> scanByteRBracket(p)
      [] name = "scanTableEnd" -> scanTableEnd(p)
      [] name = "scanArrayTableEnd" -> scanArrayTableEnd(p)
      [] name = "scanTableField" -> scanTableField(p)
      [] name = "scanBareKey" -> scanBareKey(p)
      [] name = "scanKeyEnd" -> scanKeyEnd(p)
      [] name = "scanFieldAssign" -> scanFieldAssign(p)
      [] name = "scanValue" -> scanValue(p)
      [] name = "scanInlineTableStart" -> scanInlineTableStart(p)
      [] name = "scanInlineTableFieldEnd" -> scanInlineTableFieldEnd(p)
      [] name = "scanArrayStart" -> scanArrayStart(p)
      [] name = "scanArrayValue" -> scanArrayValue(p)
      [] name = "scanArrayEnd" -> scanArrayEnd(p)
      [] name = "scanStringStart" -> scanStringStart(p)
      [] name = "scanString" -> scanString(p)
      [] name = "scanMultiLineString" -> scanMultiLineString(p)
      [] name = "scanConsumeSpaceOrNewline" -> scanConsumeSpaceOrNewline(p)
      [] name = "scanEscapedRune" -> scanEscapedRune(p)
      [] name = "scanLiteralStart" -> scanLiteralStart(p)
      [] name = "scanLiteral" -> scanLiteral(p)
      [] name = "scanMultiLineLiteral" -> scanMultiLineLiteral(p)
      [] name = "setStringValue" -> setStringValue(p)
      [] name = "scanRecord0" -> scanRecord0(p)
      [] name = "scanDigit" -> scanDigit(p)
      [] name = "scanColon" -> scanColon(p)
      [] name = "scanHash" -> scanHash(p)
      [] name = "scanNumberStart" -> scanNumberStart(p)
      [] name = "scanNumberOrDate" -> scanNumberOrDate(p)
      [] name = "scanNumber" -> scanNumber(p)
      [] name = "scanFloatFraction" -> scanFloatFraction(p)
      [] name = "scanFloatExponentSign" -> scanFloatExponentSign(p)
      [] name = "scanFloatExponent" -> scanFloatExponent(p)
      [] name = "scanDateTime" -> scanDateTime(p)
      [] name = "scanDateTimeFraction" -> scanDateTimeFraction(p)
      [] name = "scanDateTimeEnd" -> scanDateTimeEnd(p)
      [] name = "scanDateEnd" -> scanDateEnd(p)

\* The documents the goroutines parse.
ParDocs ==
    { Chars("a = 1\n"), Chars("b = [1, 2]\n"), Chars("a = 1\na = 2\n"),
      Chars("[t]\nc = 07:32:00\n"), Chars("s = \"\"\"a\\\n b\"\"\"\n"),
      Chars("d = 1979-05-27\n"), Chars("t = {a = 1e}\n"), Chars("[a]\n[a]\n") }

\* A call of parse(data) that has not begun: p is the parser it allocates.
Call(data) == [data |-> data, p |-> 0, pc |-> "call", ret |-> NoResult]

\* parse with one parser kept by the package and set anew by every call.
allocParserShared(ps, s) ==
    [parsers |-> IF ps = <<>> THEN <<newParser(s)>> ELSE [ps EXCEPT ![1] = newParser(s)],
     p |-> 1]

\* root := &types.Table{...}; p := newParser(root, string(data)): every
\* call allocates a root and a parser of its own.
allocParser(ps, s) == [parsers |-> Append(ps, newParser(s)), p |-> Len(ps) + 1]

\* The first two calls run one after the other, each alone; the last two
\* run together, once the first two have returned.
MayRun(g) ==
    CASE g = 1 -> TRUE
      [] g = 2 -> goroutines[1].pc \in {"done", "crashed"}
      [] OTHER -> goroutines[2].pc \in {"done", "crashed"}

\* What a call of parse on a goroutine leaves alone.
others == <<enc, ahead, doc, given, results, run, first, input, mark, pos, line, backups, heap,
            envs, keys, names, str, num, scanners, err, scanner, panicv, pc, ret>>

\* parse(data) up to the loop of parser.parse, on a goroutine g.
goParse ==
    /\ \E g \in DOMAIN goroutines :
          /\ MayRun(g)
          /\ goroutines[g].pc = "call"
          /\ LET a == allocParser(parsers, goroutines[g].data)
             IN  /\ parsers' = a.parsers
                 /\ goroutines' = [goroutines EXCEPT ![g].p = a.p, ![g].pc = "loop"]
    /\ UNCHANGED others

\* The parser of goroutine g becomes q, the parser a scanner has returned.
goStore(g, q) ==
    /\ parsers' = [parsers EXCEPT ![goroutines[g].p] = q]
    /\ goroutines' = [goroutines EXCEPT ![g].pc = IF Panicking(q) THEN "recover" ELSE "loop"]

\* One iteration of the loop of parser.parse on a goroutine g.
goScan ==
    /\ \E g \in DOMAIN goroutines :
          /\ goroutines[g].pc = "loop"
          /\ parsers[goroutines[g].p].next # Nil
          /\ goStore(g, callScanner(parsers[goroutines[g].p].next,
                                    clearBackups(parsers[goroutines[g].p])))
    /\ UNCHANGED others

\* The loop ends on a goroutine g, parser.parse returns p.err, and parse
\* the root or the error; the root is returned as the tree under it.
goReturn ==
    /\ \E g \in DOMAIN goroutines :
          /\ goroutines[g].pc = "loop"
          /\ parsers[goroutines[g].p].next = Nil
          /\ LET p == parsers[goroutines[g].p]
             IN  goroutines' =
                     [goroutines EXCEPT
                         ![g].pc = "done",
                         ![g].ret = IF p.err # NoError THEN [tree |-> <<>>, err |-> p.err]
                                    ELSE [tree |-> Tree(p.heap, TablePtr(Root)),
                                          err |-> NoError]]
    /\ UNCHANGED parsers
    /\ UNCHANGED others

\* The deferred errRecover on a goroutine g.
goRecover ==
    /\ \E g \in DOMAIN goroutines :
          /\ goroutines[g].pc = "recover"
          /\ LET v == parsers[goroutines[g].p].panic
             IN  goroutines' =
                     [goroutines EXCEPT
                         ![g].pc = IF v.kind = "ParseError" THEN "done" ELSE "crashed",
                         ![g].ret = IF v.kind = "ParseError"
                                    THEN [tree |-> <<>>, err |-> v] ELSE @]
    /\ UNCHANGED parsers
    /\ UNCHANGED others

ParInit ==
    /\ \E d1 \in ParDocs : \E d2 \in ParDocs :
          goroutines = <<Call(d1), Call(d2), Call(d1), Call(d2)>>
    /\ parsers = <<>>
    /\ ahead = Nil /\ enc = Nil
    /\ given = NoValue
    /\ results = <<>>
    /\ doc = <<>>
    /\ run = "go"
    /\ first = NoFirst
    /\ input = <<>>
    /\ mark = -1 /\ pos = 0 /\ line = 1 /\ backups = <<>>
    /\ heap = <<NewTable(FALSE)>>
    /\ envs = <<[env |-> Root, path |-> <<>>]>>
    /\ keys = <<>> /\ names = <<>>
    /\ str = newParser(<<>>).str /\ num = newParser(<<>>).num
    /\ scanners = <<>> /\ err = NoError
    /\ scanner = Nil
    /\ panicv = NoError
    /\ pc = "go"
    /\ ret = NoResult

ParNext == goParse \/ goScan \/ goReturn \/ goRecover

ParSpec == ParInit /\ [][ParNext]_vars

(***************************************************************************)
(* The loop of parser.parse followed to its end.  The variable ahead holds *)
(* what the next call of a scanner returns, so that whether the loop can   *)
(* go on is read from the state.                                           *)
(***************************************************************************)

\* The documents on which the loop of parser.parse is followed to its end.
LiveDocs == Docs

\* scanner(p) as the loop calls it on the parser q, for the scanner q.next;
\* q itself once the loop has ended.
Ahead(q) ==
    IF Panicking(q) \/ q.next = Nil THEN q ELSE callScanner(q.next, clearBackups(q))

LiveInit ==
    /\ doc \in LiveDocs
    /\ given = NoValue
    /\ results = <<>>
    /\ run = "first"
    /\ first = NoFirst
    /\ input = doc
    /\ mark = -1 /\ pos = 0 /\ line = 1 /\ backups = <<>>
    /\ heap = <<NewTable(FALSE)>>
    /\ envs = <<[env |-> Root, path |-> <<>>]>>
    /\ keys = <<>> /\ names = <<>>
    /\ str = newParser(doc).str /\ num = newParser(doc).num
    /\ scanners = <<>> /\ err = NoError
    /\ scanner = "scanTop"
    /\ panicv = NoError
    /\ pc = "call"
    /\ ret = NoResult
    /\ goroutines = <<>> /\ parsers = <<>> /\ enc = Nil
    /\ ahead = newParser(doc)

\* parse(data) up to the loop of parser.parse, and then one iteration of
\* the loop: scanner = scanner(p), the parser and the next scanner being
\* what the call was seen to return.
loopTake ==
    /\ pc \in {"call", "loop"}
    /\ scanner # Nil
    /\ Store(ahead)
    /\ pc' = IF Panicking(ahead) THEN "recover" ELSE "loop"

loopScan ==
    /\ loopTake
    /\ ahead' = Ahead(ahead)
    /\ UNCHANGED <<enc, goroutines, parsers, doc, given, results, run, first, ret>>

\* One call of parse, from newParser to its return.
LiveNext == loopScan \/ parseReturn \/ errRecover

\* The parser's fields, the loop's variable and the place in parse.
loopVars == <<input, mark, pos, line, backups, heap, envs, keys, names, str,
              num, scanners, err, scanner, panicv, pc>>

\* parser.parse is a plain loop and errRecover a deferred call: the call of
\* the scanner, the return and the recovery are made whenever they can be.
LiveSpec ==
    /\ LiveInit
    /\ [][LiveNext]_vars
    /\ WF_loopVars(loopTake)
    /\ WF_vars(parseReturn)
    /\ WF_vars(errRecover)

(***************************************************************************)
(* Marshal of a string written as a multi-line basic string, and parse of  *)
(* what Marshal returned.                                                  *)
(***************************************************************************)

\* The strings of the field: without quotes, with one, two and three
\* quotes in the middle, at the start and at the end, with quotes apart,
\* with a newline, a backslash and a rune above 0x7f beside a quote, and
\* with single quotes.
QuoteStrings ==
    << Chars("ab"), <<>>, Chars("a\"b"), Chars("a\"\"b"), Chars("a\"\"\"b"), Chars("\""),
       Chars("\"\""), Chars("\"\"\""), Chars("a\""), Chars("a\"\""), Chars("\"a"),
       Chars("a\"b\"c"), Chars("a\"bc"), Chars("a\n\"b"), Chars("\\\""),
       <<"\"", ByteTok(195), ByteTok(169)>>, Chars("a'"), Chars("''") >>

\* The tags of the field: a multi-line basic string, and a multi-line
\* literal string where the string allows it.
MultilineTags == <<"s,multiline", "s,multiline,ascii", "s,multiline,literal">>

\* A string that is no valid UTF-8.
InvalidString == <<"a", ByteTok(255)>>

RoundInit ==
    /\ \/ \E i \in DOMAIN MultilineTags : \E j \in DOMAIN QuoteStrings :
             given = GoStruct(<<StringField(MultilineTags[i], QuoteStrings[j])>>)
       \/ \E i \in DOMAIN MultilineTags :
             given = GoStruct(<<StringField(MultilineTags[i], InvalidString)>>)
    /\ results = <<>>
    /\ doc = <<>>
    /\ run = "marshal"
    /\ first = NoFirst
    /\ input = <<>>
    /\ mark = -1 /\ pos = 0 /\ line = 1 /\ backups = <<>>
    /\ heap = <<NewTable(FALSE)>>
    /\ envs = <<[env |-> Root, path |-> <<>>]>>
    /\ keys = <<>> /\ names = <<>>
    /\ str = newParser(<<>>).str /\ num = newParser(<<>>).num
    /\ scanners = <<>> /\ err = NoError
    /\ scanner = Nil
    /\ panicv = NoError
    /\ pc = "marshal"
    /\ ret = NoResult
    /\ goroutines = <<>> /\ parsers = <<>> /\ enc = Nil
    /\ ahead = Nil

\* A caller calls Marshal(given) and, when it returns no error, parse on
\* the bytes it returned.
MarshalGiven ==
    /\ pc = "marshal"
    /\ \E g \in Ranged(given) :
       \E out \in {Marshal(g)} :
              /\ results' = <<out>>
              /\ IF out.err = NoError
                 THEN /\ StartParse(out.b)
                      /\ ahead' = newParser(out.b)
                 ELSE /\ pc' = "failed"
                      /\ UNCHANGED <<ahead, input, mark, pos, line, backups, heap, envs, keys,
                                     names, str, num, scanners, err, scanner, panicv, ret>>
    /\ run' = "emitted"
    /\ UNCHANGED <<enc, goroutines, parsers, doc, given, first>>

RoundNext == MarshalGiven \/ loopScan \/ parseReturn \/ errRecover

RoundSpec == RoundInit /\ [][RoundNext]_vars

(***************************************************************************)
(* Keys and values                                                         *)
(***************************************************************************)

\* The number of line breaks among the first n bytes of s: a \r\n is one
\* line break, and so are a \n and a \r of their own.
LineBreaks(s, n) ==
    Cardinality({i \in 1..n :
                    \/ s[i] = "\n"
                    \/ s[i] = "\r" /\ ~(i < Len(s) /\ s[i + 1] = "\n")})

\* The line of the n-th byte of s, lines counted from 1.
LineAt(s, n) == 1 + LineBreaks(s, n)

SameValue(x, y) == x.type = y.type /\ x.v = y.v

\* The scanner about to be called has read a key, bare or quoted, that the
\* table of the environment already holds.
SecondOccurrence ==
    /\ pc = "loop"
    /\ \/ /\ scanner = "scanKeyEnd"
          /\ strJoin(P0).s \in DOMAIN heap[topEnv(P0).env].Elems
       \/ /\ scanner = "scanBareKey"
          /\ isSpace(readByte(P0).r) \/ readByte(P0).r = "="
          /\ slice(readByte(P0).p, -1).s \in DOMAIN heap[topEnv(P0).env].Elems

\* Every binding of every table is in the next state what it is now.
BindingsKept ==
    \A a \in DOMAIN heap :
        heap[a].kind = "table" =>
            \A k \in DOMAIN heap[a].Elems :
                /\ k \in DOMAIN heap'[a].Elems
                /\ SameValue(heap'[a].Elems[k], heap[a].Elems[k])

\* C2: a key is bound at most once in a table: the second occurrence of a key
\* in the root, in a table of a header or in an inline table sets a ParseError
\* with the line of that occurrence and ends the scan, and no step of the
\* scan replaces or removes a binding.
KeyBoundOnce ==
    [][/\ SecondOccurrence =>
            /\ err'.kind = "ParseError"
            /\ err'.Line = LineAt(input, pos')
            /\ scanner' = Nil
            /\ heap' = heap
       /\ pc = "loop" => BindingsKept]_vars

\* A second occurrence was met on line 2 of an inline table's document or of
\* a table's.
KeyBoundOnceWitness ==
    /\ pc = "done"
    /\ run = "first"
    /\ ret.tree = 0
    /\ ret.err.kind = "ParseError"
    /\ ret.err.Err = "table %s has key %s defined as %s"
    /\ ret.err.Line = 2
    /\ Len(heap) > 1

\* The elements of the document x = [e1, e2, ...], none if doc is not one.
ElemsOfDoc ==
    IF HasPrefix(doc, Chars("x = ["))
    THEN LET s == Split(SubSeq(doc, 6, Len(doc) - 2), Chars(", "))
         IN  IF \A i \in DOMAIN s : \E e \in ArrayElems : Chars(e) = s[i]
             THEN [i \in DOMAIN s |-> CHOOSE e \in ArrayElems : Chars(e) = s[i]]
             ELSE <<>>
    ELSE <<>>

\* The type of the value an element of ArrayElems is read as.
ElemTag(e) ==
    CASE e \in {"1"} -> "integer"
      [] e \in {"2.5"} -> "float"
      [] e \in {"\"s\""} -> "string"
      [] e \in {"true"} -> "boolean"
      [] e \in {"[1]"} -> "array"
      [] e \in {"{a = 1}"} -> "table"
      [] e \in {"1979-05-27"} -> "datetime"

\* Every closed array holds elements of the type of its first.
Homogeneous ==
    \A a \in DOMAIN heap :
        (heap[a].kind = "array" /\ heap[a].Closed) =>
            \A i \in DOMAIN heap[a].Elems : heap[a].Elems[i].type = heap[a].Elems[1].type

\* x = [e1, e2, ...] is read if and only if its elements are of one type.
ArrayOutcome ==
    (pc = "done" /\ run = "first") =>
        LET s == ElemsOfDoc
        IN  (s # <<>> /\ doc = ArrayDoc(s)) =>
                IF \A i \in DOMAIN s : ElemTag(s[i]) = ElemTag(s[1])
                THEN /\ ret.tree # 0
                     /\ Len(heap[heap[Root].Elems[<<"x">>].v].Elems) = Len(s)
                ELSE /\ ret.tree = 0
                     /\ ret.err.kind = "ParseError"
                     /\ ret.err.Err = "array %s expects element type %s, but got %s"

\* C3: in every state every closed array holds elements of the type of its
\* first; a value of another type met in a bracketed array sets a ParseError,
\* and the step that sets it appends nothing: no table and no array that
\* was there before the step is changed by it.
ArrayHomogeneous ==
    /\ []Homogeneous
    /\ []ArrayOutcome
    /\ [][(/\ pc = "loop"
           /\ err'.kind = "ParseError"
           /\ err'.Err = "array %s expects element type %s, but got %s")
          => \A a \in DOMAIN heap : heap'[a] = heap[a]]_vars

\* An array of two elements was refused for its third.
ArrayHomogeneousWitness ==
    /\ pc = "done"
    /\ run = "first"
    /\ ret.err.kind = "ParseError"
    /\ ret.err.Err = "array %s expects element type %s, but got %s"
    /\ \E a \in DOMAIN heap :
          heap[a].kind = "array" /\ heap[a].Closed /\ Len(heap[a].Elems) = 2

(***************************************************************************)
(* Headers                                                                 *)
(***************************************************************************)

\* C4: two documents that differ in the order of the sections [a.b] and
\* [a.b.c] alone, each section with its body, are both accepted, and their
\* trees are equal, the Implicit flag of every table included.
HeaderOrder ==
    (run = "reordered" /\ pc \in {"done", "crashed"}) =>
        /\ first.ret.tree # 0
        /\ ret.tree # 0
        /\ Tree(heap, TablePtr(Root)) = first.tree

\* Both orders of two sections with bodies have been parsed.
HeaderOrderWitness ==
    /\ run = "reordered"
    /\ pc = "done"
    /\ ret.tree # 0
    /\ \E o \in OrderCases : o.ab # "" /\ o.abc # "" /\ doc = OrderDoc(o, TRUE)

\* The table the segments before the last lead to, as locateTable finds it
\* for the header that has just been read.
HeaderParent == locateTable(P0, Front(names))

\* A step of scanTableEnd or scanArrayTableEnd whose path resolves up to its
\* last segment.
FinalSegment(end) ==
    /\ pc = "loop"
    /\ scanner = end
    /\ names # <<>>
    /\ ~Panicking(HeaderParent.p)

\* The step fails with a ParseError.
StepFails == pc' = "recover" /\ panicv'.kind = "ParseError"

\* What [path] does at its last segment.
FinalSegmentOfTable ==
    FinalSegment("scanTableEnd") =>
        LET h == HeaderParent.p.heap
            env == HeaderParent.t
            name == Last(names)
            v == h[env].Elems[name]
        IN  IF name \notin DOMAIN h[env].Elems
            THEN /\ pc' = "loop"
                 /\ scanner' = "scanTopEnd"
                 /\ Len(envs') = 1
                 /\ envs'[1].env \notin DOMAIN h
                 /\ heap'[envs'[1].env] = NewTable(FALSE)
                 /\ heap'[env].Elems[name] = TablePtr(envs'[1].env)
            ELSE IF v.type = "table" /\ h[v.v].Implicit
            THEN /\ pc' = "loop"
                 /\ scanner' = "scanTopEnd"
                 /\ Len(envs') = 1
                 /\ envs'[1].env = v.v
                 /\ ~heap'[v.v].Implicit
                 /\ heap'[v.v].Elems = h[v.v].Elems
                 /\ Len(heap') = Len(h)
            ELSE StepFails

\* The lines of the document.
Statements == Split(doc, <<"\n">>)

\* Whether [[a]] stands between the i-th and the j-th statement of s.
ArrayBetween(s, i, j) == \E k \in (i + 1)..(j - 1) : s[k] = Chars("[[a]]")

\* A document with the same header [path] twice is refused.
SameHeaderOnce ==
    (pc = "done" /\ run = "first") =>
        LET s == Statements
        IN  (\E i, j \in DOMAIN s :
                i < j /\ s[i] = s[j] /\ s[i] \in {Chars("[a]"), Chars("[a.b]")})
            => ret.tree = 0

\* A document with the same header [path] twice, and no [[a]] between the
\* two, is refused.
SameTableOnce ==
    (pc = "done" /\ run = "first") =>
        LET s == Statements
        IN  (\E i, j \in DOMAIN s :
                /\ i < j /\ s[i] = s[j] /\ s[i] \in {Chars("[a]"), Chars("[a.b]")}
                /\ ~ArrayBetween(s, i, j))
            => ret.tree = 0

\* C5 as the specification states it: at the last segment of [path] a missing
\* name gets a new table with Implicit false, an implicit table has its flag
\* cleared and becomes the environment, anything else fails; and the same
\* [path] is accepted at most once.
TableHeader == [][FinalSegmentOfTable]_vars /\ []SameHeaderOnce

\* C5 as the code has it: the rule of the last segment holds, and the same
\* [path] is accepted at most once until a [[...]] header appends a new last
\* element on its path; in that element [path] is accepted again.
TableHeaderAmended == [][FinalSegmentOfTable]_vars /\ []SameTableOnce

\* An implicit table was made explicit by its own header.
TableHeaderWitness ==
    /\ pc = "loop"
    /\ run = "first"
    /\ scanner = "scanTopEnd"
    /\ Len(envs) = 1
    /\ names = <<Chars("a")>>
    /\ Chars("b") \in DOMAIN heap[envs[1].env].Elems
    /\ ~heap[envs[1].env].Implicit
    /\ heap[heap[envs[1].env].Elems[Chars("b")].v].Elems = <<>>

\* C6: at the last segment of [[path]] a missing name gets an open array of
\* one new empty table, an open array gets one new empty table appended, and
\* a closed array or a value that is no array fails; the new table becomes
\* the environment.
ArrayTableHeader ==
    [][FinalSegment("scanArrayTableEnd") =>
        LET h == HeaderParent.p.heap
            env == HeaderParent.t
            name == Last(names)
            v == h[env].Elems[name]
            t == envs'[1].env
            Fresh == /\ pc' = "loop"
                     /\ scanner' = "scanTopEnd"
                     /\ Len(envs') = 1
                     /\ t \notin DOMAIN h
                     /\ heap'[t] = NewTable(FALSE)
        IN  IF name \notin DOMAIN h[env].Elems
            THEN /\ Fresh
                 /\ heap'[env].Elems[name].type = "array"
                 /\ heap'[env].Elems[name].v \notin DOMAIN h
                 /\ heap'[heap'[env].Elems[name].v] = NewArray(FALSE, <<TablePtr(t)>>)
            ELSE IF v.type = "array" /\ ~h[v.v].Closed
            THEN /\ Fresh
                 /\ heap'[env].Elems[name] = v
                 /\ heap'[v.v] = NewArray(FALSE, Append(h[v.v].Elems, TablePtr(t)))
            ELSE StepFails]_vars

\* A second [[a]] appended a table to the open array a.
ArrayTableHeaderWitness ==
    /\ pc = "loop"
    /\ run = "first"
    /\ scanner = "scanTopEnd"
    /\ names = <<Chars("a")>>
    /\ Chars("a") \in DOMAIN heap[Root].Elems
    /\ heap[Root].Elems[Chars("a")].type = "array"
    /\ ~heap[heap[Root].Elems[Chars("a")].v].Closed
    /\ Len(heap[heap[Root].Elems[Chars("a")].v].Elems) = 2
    /\ envs[1].env = heap[heap[Root].Elems[Chars("a")].v].Elems[2].v

\* The segments before the last, resolved from table t of heap h by the rules
\* of the specification.
RECURSIVE Walk(_, _, _)
Walk(h, t, segments) ==
    IF segments = <<>> THEN [ok |-> TRUE, t |-> t, h |-> h]
    ELSE LET name == Head(segments)
             v == h[t].Elems[name]
         IN  IF name \notin DOMAIN h[t].Elems
             THEN Walk([Append(h, [kind |-> "table", Implicit |-> TRUE, Elems |-> <<>>])
                           EXCEPT ![t].Elems = MapSet(@, name, TablePtr(Len(h) + 1))],
                       Len(h) + 1, Tail(segments))
             ELSE IF v.type = "table" THEN Walk(h, v.v, Tail(segments))
             ELSE IF v.type = "array" /\ ~h[v.v].Closed
             THEN Walk(h, Last(h[v.v].Elems).v, Tail(segments))
             ELSE [ok |-> FALSE, t |-> 0, h |-> h]

\* The objects a header may change at its last segment: the table it is in
\* and the array it appends to.
LastSegment(w) ==
    {w.t} \cup (IF Last(names) \in DOMAIN w.h[w.t].Elems
                THEN {w.h[w.t].Elems[Last(names)].v} ELSE {})

\* C7: the segments before the last resolve from the root: a missing name
\* becomes an implicit table, a table is gone into, an open array of tables
\* is gone into at its last element, and a closed array or a scalar fails
\* with a ParseError and nothing is made at the last segment.
NonFinalSegments ==
    [][(/\ pc = "loop"
        /\ scanner \in {"scanTableEnd", "scanArrayTableEnd"}
        /\ names # <<>>) =>
        LET w == Walk(heap, Root, Front(names))
        IN  IF w.ok
            THEN /\ ~Panicking(HeaderParent.p)
                 /\ HeaderParent.t = w.t
                 /\ pc' = "loop" =>
                       /\ Last(names) \in DOMAIN heap'[w.t].Elems
                       /\ \A a \in DOMAIN w.h \ LastSegment(w) : heap'[a] = w.h[a]
            ELSE /\ StepFails
                 /\ heap' = w.h]_vars

\* A header went through the last element of an open array of two tables.
NonFinalSegmentsWitness ==
    /\ pc = "loop"
    /\ run = "first"
    /\ scanner = "scanTopEnd"
    /\ names = <<Chars("a"), Chars("b")>>
    /\ Chars("a") \in DOMAIN heap[Root].Elems
    /\ heap[Root].Elems[Chars("a")].type = "array"
    /\ Len(heap[heap[Root].Elems[Chars("a")].v].Elems) = 2
    /\ Chars("b") \in DOMAIN heap[heap[heap[Root].Elems[Chars("a")].v].Elems[2].v].Elems
    /\ Chars("b") \notin DOMAIN heap[heap[heap[Root].Elems[Chars("a")].v].Elems[1].v].Elems

(***************************************************************************)
(* Arrays of tables and errors                                             *)
(***************************************************************************)

\* The open arrays of tables of the heap.
OpenArrays == {a \in DOMAIN heap : heap[a].kind = "array" /\ ~heap[a].Closed}

\* C8: an open array of tables only grows at its end, and a step of the
\* parse changes no element of it but the last.
AppendOnly ==
    [][pc = "loop" =>
        \A a \in OpenArrays :
            LET old == heap[a].Elems
                new == heap'[a].Elems
            IN  /\ Len(new) >= Len(old)
                /\ SubSeq(new, 1, Len(old)) = old
                /\ \A i \in DOMAIN old :
                      i < Len(new) => Tree(heap', old[i]) = Tree(heap, old[i])]_vars

\* The second element of the array a got a key after the first had got one.
AppendOnlyWitness ==
    /\ pc = "loop"
    /\ run = "first"
    /\ Chars("a") \in DOMAIN heap[Root].Elems
    /\ heap[Root].Elems[Chars("a")].type = "array"
    /\ ~heap[heap[Root].Elems[Chars("a")].v].Closed
    /\ Len(heap[heap[Root].Elems[Chars("a")].v].Elems) = 2
    /\ \A i \in 1..2 :
          Chars("x") \in DOMAIN heap[heap[heap[Root].Elems[Chars("a")].v].Elems[i].v].Elems

\* An error has been recorded or panicked.
Failed == err # NoError \/ panicv # NoError

\* What parse returns: the error with the line and the position of the
\* parser and no tree, or the root and no error.
Returned ==
    IF ret.tree = 0
    THEN /\ ret.err.kind = "ParseError"
         /\ ret.err.Line = line
         /\ ret.err.Pos = pos
    ELSE /\ ret.tree = Root
         /\ ret.err = NoError
         /\ ~Failed

\* C9: at the first error the loop stops and nothing more is scanned, parse
\* returns the ParseError with line and position and no tree, and with a tree
\* it returns no error.
FailFast ==
    /\ []((pc = "loop" /\ err # NoError) => scanner = Nil)
    /\ [][Failed => /\ <<input, pos, line, heap, err, panicv>>'
                        = <<input, pos, line, heap, err, panicv>>
                     /\ pc' \in {"done", "crashed"}
                     /\ ret'.tree = 0]_vars
    /\ [](pc = "done" => Returned)

\* parse has returned a ParseError for a key that has no value.
FailFastWitness ==
    /\ pc = "done"
    /\ run = "first"
    /\ ret.tree = 0
    /\ ret.err.kind = "ParseError"
    /\ ret.err.Line = 2
    /\ heap[Root].Elems # <<>>

(***************************************************************************)
(* The round trip and the order of keys                                    *)
(***************************************************************************)

\* C1: for every document that parse accepts, Marshal on the tree succeeds,
\* parse on the bytes it returned succeeds, and the second tree equals the
\* first: the same keys in every table, the same variant and value at every
\* key, the same length and order in every array.
RoundTrip ==
    (run = "emitted" /\ pc \in {"done", "failed", "crashed"}) =>
        /\ first.out.err = NoError
        /\ ret.tree # 0
        /\ DeepEqual(Interface(heap, TablePtr(Root)), Unranged(first.value))

\* The value of a byte.
ByteOf(c) == IF c \in HighBytes THEN ByteVal(c) ELSE CodePoint(c)

\* Whether key a comes before key b in the order of their code points, which
\* is the order of the bytes of their UTF-8 encodings.
RECURSIVE KeyLess(_, _)
KeyLess(a, b) ==
    IF b = <<>> THEN FALSE
    ELSE IF a = <<>> THEN TRUE
    ELSE IF a[1] # b[1] THEN ByteOf(a[1]) < ByteOf(b[1])
    ELSE KeyLess(Tail(a), Tail(b))

\* The keys S in ascending order.
Ascending(S) ==
    CHOOSE ks \in Perms(S) : \A i, j \in DOMAIN ks : i < j => KeyLess(ks[i], ks[j])

\* The value with every map yielding its keys in ascending order.
RECURSIVE Sorted(_)
Sorted(g) ==
    CASE g.kind = "map" ->
            [kind |-> "map", v |-> [k \in DOMAIN g.v |-> Sorted(g.v[k])],
             keys |-> Ascending(DOMAIN g.v)]
      [] g.kind = "slice" -> [kind |-> "slice", v |-> [i \in DOMAIN g.v |-> Sorted(g.v[i])]]
      [] OTHER -> g

\* C10: what the emitter writes for a map is what it writes with the keys of
\* every map, at the root, under a header and inline, taken in ascending order
\* of their code points.
KeysSorted ==
    (run = "emitted" /\ pc \in {"done", "failed", "crashed"}) =>
        first.out = Marshal(Sorted(first.value))

(***************************************************************************)
(* Claims on Marshal                                                       *)
(***************************************************************************)

\* C11: two Marshal calls on equal values, maps of two or more keys among
\* them, return the same bytes and the same error.
Deterministic ==
    Len(results) = 2 => results[1] = results[2]

\* The fields a struct offers as keys, from the i-th on: what
\* marshalStructTable hands to marshalTableField, the fields of embedded
\* structs among them.
RECURSIVE DirectFields(_, _)
DirectFields(fields, i) ==
    IF i > Len(fields) THEN <<>>
    ELSE LET sf == fields[i]
             tag == parseTag(sf.tag)
             rest == DirectFields(fields, i + 1)
         IN  IF tag.name = <<"-">> THEN rest
             ELSE IF sf.Anonymous /\ tag.name = <<>> /\ sf.value.kind = "struct"
             THEN DirectFields(sf.value.fields, 1) \o rest
             ELSE IF sf.Anonymous /\ tag.name = <<>> /\ sf.value.kind = "ptr"
                     /\ sf.value.elemKind = "struct"
             THEN IF IsNil(sf.value) THEN rest
                  ELSE DirectFields(sf.value.elem.fields, 1) \o rest
             ELSE IF ~IsExported(sf.Name) THEN rest
             ELSE <<[key |-> IF tag.name = <<>> THEN sf.Name ELSE tag.name,
                     value |-> sf.value, options |-> tag.options]>> \o rest

\* The fields of the table g: the keys of a map, the fields of a struct.
Direct(g) ==
    IF g.kind = "map"
    THEN LET ks == Ascending(DOMAIN g.v)
         IN  [i \in DOMAIN ks |-> [key |-> ks[i], value |-> g.v[ks[i]], options |-> {}]]
    ELSE IF g.kind = "struct" THEN DirectFields(g.fields, 1)
    ELSE <<>>

\* Whether the field f of a table is written at all: a nil pointer and an
\* empty value with omitempty are not.
Written(f) ==
    LET v == indirectPtr(f.value).v
    IN  \/ v.kind = "time.Time"
        \/ /\ ~(Has(f.options, "omitempty") /\ isEmptyValue(v))
           /\ v.kind # "ptr"

\* Whether the field f of a table that is not inline is a sub-table or an
\* array of tables, written under a header of its own.
Postponed(f) ==
    LET v == indirectPtr(f.value).v
    IN  /\ Written(f)
        /\ ~Has(f.options, "inline")
        /\ \/ isTableType(v.kind)
           \/ /\ v.kind = "slice"
              /\ Len(v.v) # 0
              /\ isTableType(indirectPtr(v.v[1]).v.kind)

\* Whether a table reached from g along the keys of path has k as the key of
\* a field it writes as a `key = value` line.
RECURSIVE OwnsAt(_, _, _)
OwnsAt(g, path, k) ==
    LET D == Direct(indirectPtr(g).v)
    IN  IF path = <<>>
        THEN \E i \in DOMAIN D :
                normalizeKey(D[i].key) = k /\ Written(D[i]) /\ ~Postponed(D[i])
        ELSE \E i \in DOMAIN D :
                /\ normalizeKey(D[i].key) = path[1]
                /\ Postponed(D[i])
                /\ LET v == indirectPtr(D[i].value).v
                   IN  IF v.kind = "slice"
                       THEN \E j \in DOMAIN v.v : OwnsAt(v.v[j], Tail(path), k)
                       ELSE OwnsAt(v, Tail(path), k)

\* The lines of the text b that are not empty.
EmittedLines(b) == SelectSeq(Split(b, <<"\n">>), LAMBDA l : l # <<>>)

\* Whether the line l is a `[path]` or `[[path]]` header, and the keys of its
\* path.
IsHeader(l) == l[1] = "["
HeaderPathOf(l) ==
    Split(IF l[2] = "[" THEN SubSeq(l, 3, Len(l) - 2) ELSE SubSeq(l, 2, Len(l) - 1), <<".">>)

\* The key of the `key = value` line l.
LineKey(l) == Split(l, Chars(" = "))[1]

\* The path of the last header before line j of ls, the root's without one.
CurrentPath(ls, j) ==
    LET H == {i \in 1..(j - 1) : IsHeader(ls[i])}
    IN  IF H = {} THEN <<>>
        ELSE HeaderPathOf(ls[CHOOSE i \in H : \A h \in H : h <= i])

\* The number of fields the root table of g writes as `key = value` lines.
RootLines(g) ==
    LET D == Direct(indirectPtr(g).v)
    IN  Cardinality({i \in DOMAIN D : Written(D[i]) /\ ~Postponed(D[i])})

\* Whether in the text b written for g every `key = value` line stands under
\* the header of the table that has the key, and every such line of the root
\* stands before the first header.
FieldsFirst(g, b) ==
    LET ls == EmittedLines(b)
    IN  /\ \A j \in DOMAIN ls :
            ~IsHeader(ls[j]) => OwnsAt(g, CurrentPath(ls, j), LineKey(ls[j]))
        /\ Cardinality({j \in DOMAIN ls : ~IsHeader(ls[j]) /\ CurrentPath(ls, j) = <<>>})
              = RootLines(g)

\* No value of the text b is a multi-line string, whose lines after the
\* first are no lines of a key.
OneLineValues(b) == ~Contains(b, Chars("'''")) /\ ~Contains(b, Chars("\"\"\""))

\* C12: in the text Marshal returns, the `key = value` lines of every table
\* that is not inline stand before the first `[path]` or `[[path]]` header of
\* its sub-tables and arrays of tables: every such line stands under the
\* header of the table that has its key, the lines of the root before any
\* header.
KeysBeforeHeaders ==
    \A n \in DOMAIN results :
        (results[n].err = NoError /\ OneLineValues(results[n].b)) =>
            FieldsFirst(given, results[n].b)

\* Marshal has written a key of the root, the header of a sub-table with a
\* key of its own, and the header of a table below with a key in it.
KeysBeforeHeadersWitness ==
    /\ Len(results) = 1
    /\ results[1].err = NoError
    /\ LET ls == EmittedLines(results[1].b)
       IN  /\ Len(ls) = 5
           /\ ~IsHeader(ls[1])
           /\ IsHeader(ls[2]) /\ Len(HeaderPathOf(ls[2])) = 1
           /\ ~IsHeader(ls[3])
           /\ IsHeader(ls[4]) /\ Len(HeaderPathOf(ls[4])) = 2
           /\ ~IsHeader(ls[5])

\* Whether the table g has two fields it writes under one key.
TwiceKeyed(g) ==
    LET D == Direct(indirectPtr(g).v)
    IN  \E i, j \in DOMAIN D :
            i < j /\ D[i].key = D[j].key /\ Written(D[i]) /\ Written(D[j])

\* Whether the text b has the same key on two `key = value` lines with no
\* header between them.
KeyWrittenTwice(b) ==
    LET ls == EmittedLines(b)
    IN  \E i, j \in DOMAIN ls :
            /\ i < j
            /\ \A h \in i..j : ~IsHeader(ls[h])
            /\ LineKey(ls[i]) = LineKey(ls[j])

\* C13: the text Marshal returns never has the same key twice in one table,
\* and for a struct two of whose fields, promoted from embedded structs and
\* renamed by tags among them, come under one key, Marshal returns a
\* DuplicatedKeyError and no bytes.
NoKeyTwice ==
    \A n \in DOMAIN results :
        /\ ~KeyWrittenTwice(results[n].b)
        /\ (given.kind = "struct" /\ TwiceKeyed(given)) =>
              (results[n].err.kind = "DuplicatedKeyError" /\ results[n].b = <<>>)

\* Marshal has returned a DuplicatedKeyError for a struct whose field B is
\* renamed to A by its tag and whose embedded struct E has a field A.
NoKeyTwiceWitness ==
    /\ Len(results) = 1
    /\ given.kind = "struct"
    /\ Len(given.fields) = 2
    /\ given.fields[1].Name = <<"B">>
    /\ given.fields[2].Name = <<"E">>
    /\ TwiceKeyed(given)
    /\ results[1].err.kind = "DuplicatedKeyError"
    /\ results[1].err.Key = <<"A">>
    /\ results[1].b = <<>>

\* Whether the key x of the map g is a float that is NaN, +Inf or -Inf.
NonFiniteAt(g, x) ==
    /\ g.kind = "map"
    /\ Chars(x) \in DOMAIN g.v
    /\ g.v[Chars(x)].kind = "float64"
    /\ (IsNaN(g.v[Chars(x)].v) \/ IsInf(g.v[Chars(x)].v))

\* C14: for a value with a float that is NaN, +Inf or -Inf, Marshal returns
\* an error and no bytes.
NonFiniteRefused ==
    \A n \in DOMAIN results :
        NonFiniteAt(given, "x") => (results[n].err # NoError /\ results[n].b = <<>>)

\* The TOML type of an element of a slice, as marshalArrayValue hands it to
\* check.
ElemType(x) ==
    LET elem == indirectPtr(x).v
    IN  CASE elem.kind = "time.Time" -> "datetime"
          [] elem.kind = "bool" -> "boolean"
          [] elem.kind = "int64" -> "integer"
          [] elem.kind = "float64" -> "float"
          [] elem.kind = "string" -> "string"
          [] elem.kind = "slice" -> "array"
          [] elem.kind \in {"map", "struct"} -> "table"
          [] OTHER -> ""

\* Whether two elements of the slice v differ in their TOML types.
Mixed(v) == \E i, j \in DOMAIN v.v : ElemType(v.v[i]) # ElemType(v.v[j])

\* Whether the table g has a field that is a slice of mixed types written as
\* a bracketed array.
MixedArrayIn(g) ==
    LET D == Direct(indirectPtr(g).v)
    IN  \E i \in DOMAIN D :
            LET v == indirectPtr(D[i].value).v
            IN  /\ v.kind = "slice"
                /\ Written(D[i])
                /\ ~Postponed(D[i])
                /\ Mixed(v)

\* C15: for a slice written as a bracketed array two of whose elements differ
\* in their TOML types, Marshal returns a MarshalArrayError and no bytes.
MixedRefused ==
    \A n \in DOMAIN results :
        MixedArrayIn(given) =>
            (results[n].err.kind = "MarshalArrayError" /\ results[n].b = <<>>)

\* Marshal has returned a MarshalArrayError for a slice of an integer and a
\* string, after the key and the first element were written.
MixedRefusedWitness ==
    /\ Len(results) = 1
    /\ given.kind = "map"
    /\ MixedArrayIn(given)
    /\ Len(given.v[<<"x">>].v) = 2
    /\ ElemType(given.v[<<"x">>].v[1]) = "integer"
    /\ ElemType(given.v[<<"x">>].v[2]) = "string"
    /\ results[1].err.kind = "MarshalArrayError"
    /\ results[1].err.Expected = "integer"
    /\ results[1].err.Got = "string"
    /\ results[1].b = <<>>

(***************************************************************************)
(* Claims on keys and literals                                             *)
(***************************************************************************)

\* Whether the value g is a table of one key, of an integer or of a table.
OneKey(g) ==
    /\ g.kind = "map"
    /\ Cardinality(DOMAIN g.v) = 1
    /\ \A k \in DOMAIN g.v : g.v[k].kind \in {"int64", "map"}

\* The key of a table of one key.
TheKey(g) == CHOOSE k \in DOMAIN g.v : TRUE

\* The key as the specification has it written: bare when each of its
\* characters is one of a bare key, between double quotes otherwise.
IsBare(k) == \A i \in DOMAIN k : isBareKeyChar(k[i])

\* C16: for a table of the one key k, Marshal writes k bare exactly when
\* every character of k is one of A-Z, a-z, 0-9, _ and -, and between double
\* quotes otherwise, and parse on the bytes succeeds with a root of the one
\* key k, for a key with a value and for the key of a header.
KeyRoundTrip ==
    (run = "emitted" /\ pc \in {"done", "failed", "crashed"} /\ OneKey(first.value)) =>
        LET k == TheKey(first.value)
            b == first.out.b
            header == first.value.v[k].kind = "map"
            head == Split(b, <<"\n">>)[1]
            written == IF header THEN SubSeq(head, 2, Len(head) - 1)
                       ELSE Split(head, Chars(" = "))[1]
        IN  /\ first.out.err = NoError
            /\ IsBare(k) <=> written = k
            /\ ~IsBare(k) => (written[1] = "\"" /\ Last(written) = "\"")
            /\ pc = "done"
            /\ ret.tree # 0
            /\ DOMAIN Interface(heap, TablePtr(Root)).v = {k}

\* C17: parse accepts an array with a newline after the opening bracket,
\* after a comma, and between an element and the comma or the closing bracket
\* after it, and binds the key to the array of the elements the one-line form
\* has.
NewlineInArray ==
    \A c \in NewlineArrays :
        (doc = Chars(c[1]) /\ run = "first" /\ pc = "done") =>
            /\ ret.tree # 0
            /\ LET x == Interface(heap, TablePtr(Root)).v[<<"x">>]
               IN  x.kind = "slice" /\ Len(x.v) = c[2]

\* C18: parse accepts a datetime with the zone Z, with the offset +HH:MM and
\* with the offset -HH:MM, with a fraction of a second and without one, and
\* binds the key to the Datetime of that instant: the date, the time, the
\* fraction and the offset the literal has.
DatetimeZones ==
    \A t \in Datetimes :
        (doc = DatetimeDoc(t) /\ run = "first" /\ pc = "done") =>
            /\ ret.tree # 0
            /\ LET d == Interface(heap, TablePtr(Root)).v[<<"d">>]
               IN  d.kind = "time.Time" /\ d.v = ParseRFC3339(Chars(t)).v

\* The literal without its sign, and its digits, the underscores removed.
Unsigned(l) == IF l # <<>> /\ l[1] \in {"+", "-"} THEN Tail(l) ELSE l
DigitsOf(l) == SelectSeq(Unsigned(l), LAMBDA c : c # "_")

\* Whether the literal is made of digits and underscores, every underscore
\* with a digit before it and a digit after it.
UnderscoresBetweenDigits(l) ==
    LET u == Unsigned(l)
    IN  /\ u # <<>>
        /\ \A i \in DOMAIN u : isDigit(u[i]) \/ u[i] = "_"
        /\ \A i \in DOMAIN u :
              u[i] = "_" => (i > 1 /\ i < Len(u) /\ isDigit(u[i - 1]) /\ isDigit(u[i + 1]))

\* The integer a literal denotes.
IntegerOf(l) ==
    [neg |-> l[1] = "-" /\ DigitsOf(l) # <<"0">>, mag |-> DigitsOf(l)]

\* Whether parse has returned for the document i = l, and whether it has
\* bound i to the integer n.
ParsedInt(l) == doc = IntDoc(l) /\ run = "first" /\ pc = "done"
BoundTo(n) ==
    /\ ret.tree # 0
    /\ LET i == Interface(heap, TablePtr(Root)).v[<<"i">>]
       IN  i.kind = "int64" /\ i.v = n

\* C19: parse refuses an integer one of whose underscores has no digit
\* before it or no digit after it, and binds the key of an integer it accepts
\* to the integer of its digits, the underscores removed.
UnderscoresInIntegers ==
    \A l \in IntLiterals :
        ParsedInt(l) =>
            /\ ~UnderscoresBetweenDigits(Chars(l)) =>
                  (ret.tree = 0 /\ ret.err.kind = "ParseError")
            /\ ret.tree # 0 => BoundTo(IntegerOf(Chars(l)))

\* parse has bound i to 3456 for the literal 3_456.
UnderscoresInIntegersWitness ==
    /\ ParsedInt("3_456")
    /\ UnderscoresBetweenDigits(Chars("3_456"))
    /\ BoundTo(Integer([neg |-> FALSE, mag |-> Chars("3456")]).v)

\* Whether the integer of a literal is outside of [-2^63, 2^63 - 1].
OutOfRange(l) ==
    LET mag == TrimLeft0(DigitsOf(l))
        limit == IF l[1] = "-" THEN MinInt64Mag ELSE MaxInt64
    IN  Len(mag) > Len(limit) \/ (Len(mag) = Len(limit) /\ DigitsGreater(mag, limit))

\* Whether the digits of a literal start with a zero that is not the only
\* digit.
LeadingZero(l) == DigitsOf(l) # <<"0">> /\ DigitsOf(l)[1] = "0"

\* C20: for an integer outside of [-2^63, 2^63 - 1] parse returns a
\* ParseError and no tree; it binds the key of an integer inside, one with a
\* leading zero apart, to that integer, the two ends of the range among them.
Int64Range ==
    \A l \in IntLiterals :
        (ParsedInt(l) /\ UnderscoresBetweenDigits(Chars(l)) /\ ~LeadingZero(Chars(l))) =>
            IF OutOfRange(Chars(l))
            THEN ret.tree = 0 /\ ret.err.kind = "ParseError"
                 /\ ret.err.Err = "strconv.ParseInt: value out of range"
            ELSE BoundTo(IntegerOf(Chars(l)))

\* parse has returned a ParseError for 2^63.
Int64RangeWitness ==
    /\ ParsedInt("9223372036854775808")
    /\ OutOfRange(Chars("9223372036854775808"))
    /\ ret.tree = 0
    /\ ret.err.kind = "ParseError"

(***************************************************************************)
(* Claims on floats and strings                                            *)
(***************************************************************************)

\* C21: parse accepts a float with a signed exponent whether the exponent
\* follows a fraction (d.dE+d, d.dE-d) or the integer part (dE+d, dE-d), and
\* binds the key to the float the literal denotes.
SignedExponent ==
    \A c \in FloatLiterals :
        (doc = FloatDoc(c[1]) /\ run = "first" /\ pc = "done") =>
            /\ ret.tree # 0
            /\ LET f == Interface(heap, TablePtr(Root)).v[<<"f">>]
               IN  /\ f.kind = "float64"
                   /\ f.v = [neg |-> Chars(c[1])[1] = "-", mant |-> Chars(c[2]), dp |-> c[3]]

\* The text without the newline it starts with, if it starts with one.
TrimNewline(s) ==
    IF HasPrefix(s, <<"\r", "\n">>) THEN SubSeq(s, 3, Len(s))
    ELSE IF HasPrefix(s, <<"\n">>) THEN Tail(s)
    ELSE s

\* The text without the spaces, tabs and newlines it starts with.
RECURSIVE TrimSpaceOrNewline(_)
TrimSpaceOrNewline(s) ==
    IF s # <<>> /\ Head(s) \in {" ", "\t", "\n", "\r"} THEN TrimSpaceOrNewline(Tail(s)) ELSE s

\* The text without every backslash that a newline follows and without the
\* newlines, spaces and tabs after that backslash.
RECURSIVE Continued(_)
Continued(s) ==
    IF s = <<>> THEN <<>>
    ELSE IF Head(s) = "\\" /\ TrimNewline(Tail(s)) # Tail(s)
    THEN Continued(TrimSpaceOrNewline(Tail(s)))
    ELSE <<Head(s)>> \o Continued(Tail(s))

\* Whether parse has returned for the document s = """body""", and whether
\* it has bound s to the string c.
ParsedMultiLine(body) == doc = MultiLineDoc(body) /\ run = "first" /\ pc = "done"
BoundToString(c) ==
    /\ ret.tree # 0
    /\ Interface(heap, TablePtr(Root)).v[<<"s">>] = [kind |-> "string", v |-> c]

\* C22: the content of a multi-line basic string is the text between the
\* quotes without the newline that directly follows the opening quotes and
\* without every backslash that a newline directly follows, together with
\* that newline and the spaces, tabs and newlines after it; every other
\* character is kept, in order.
LineContinuation ==
    \A b \in MultiLineBodies :
        ParsedMultiLine(b) => BoundToString(Continued(TrimNewline(Chars(b))))

\* parse has bound s to "a bc\n" for a body that starts with a newline and
\* has two backslashes at ends of lines.
LineContinuationWitness ==
    /\ ParsedMultiLine("\na \\\n   b\\\n c\n")
    /\ BoundToString(Chars("a bc\n"))

\* C23: one or two quotes that directly precede the closing quotes of a
\* multi-line basic string are content: parse binds the key to the text
\* between the opening quotes and the last three quotes, whether that text
\* ends with a quote, with two, or with none.
QuotesBeforeClosing ==
    \A b \in QuoteBodies :
        ParsedMultiLine(b) => BoundToString(TrimNewline(Chars(b)))

(***************************************************************************)
(* Claims on lines and bytes                                               *)
(***************************************************************************)

\* C24: whenever the loop of parse is about to call a scanner, the line
\* counter is 1 plus the number of line breaks before the position, those
\* inside multi-line strings included, and so is the line of the ParseError
\* parse returns, at the position that error carries.
LineCounter ==
    /\ (run = "first" /\ pc = "loop") => line = LineAt(input, pos)
    /\ (run = "first" /\ pc = "done" /\ ret.err.kind = "ParseError") =>
           ret.err.Line = LineAt(input, ret.err.Pos)

\* Whether s is UTF-8: it decodes rune after rune with no rune in error.
RECURSIVE ValidString(_)
ValidString(s) ==
    \/ s = <<>>
    \/ LET d == DecodeRuneInString(s)
       IN  ~(d.r = RuneError /\ d.n = 1) /\ ValidString(SubSeq(s, d.n + 1, Len(s)))

\* Whether every key and every string of the tables and arrays allocated is
\* UTF-8.
ValidTree ==
    \A a \in DOMAIN heap :
        /\ heap[a].kind = "table" => \A k \in DOMAIN heap[a].Elems : ValidString(k)
        /\ \A k \in DOMAIN heap[a].Elems :
              heap[a].Elems[k].type = "string" => ValidString(heap[a].Elems[k].v)

\* C25: for a document that is not UTF-8 parse returns a ParseError and no
\* tree, wherever the invalid bytes are; no key and no string that parse
\* has stored holds bytes that are not UTF-8.
InvalidUtf8Refused ==
    /\ run = "first" => ValidTree
    /\ (run = "first" /\ pc = "done" /\ ~ValidString(doc)) =>
           (ret.tree = 0 /\ ret.err.kind = "ParseError")

(***************************************************************************)
(* Claims on inline tables and strings of Marshal                          *)
(***************************************************************************)

\* The number of tables in a value: the maps and the structs, those inside
\* maps, structs and slices included.
RECURSIVE Tables(_), TablesOf(_, _)
Tables(v) ==
    CASE v.kind = "map" -> 1 + TablesOf(v.v, DOMAIN v.v)
      [] v.kind = "struct" ->
            1 + TablesOf([i \in DOMAIN v.fields |-> v.fields[i].value], DOMAIN v.fields)
      [] v.kind = "slice" -> TablesOf(v.v, DOMAIN v.v)
      [] OTHER -> 0

TablesOf(f, D) ==
    IF D = {} THEN 0
    ELSE LET k == CHOOSE k \in D : TRUE IN Tables(f[k]) + TablesOf(f, D \ {k})

\* Whether g is a struct of one field tagged inline that holds a table or a
\* slice.
InlineField(g) ==
    /\ g.kind = "struct"
    /\ Len(g.fields) = 1
    /\ Has(parseTag(g.fields[1].tag).options, "inline")
    /\ g.fields[1].value.kind \in {"map", "struct", "slice"}

\* Whether the line b starts with is key = value with every table of the
\* value between braces of its own.
InlineFormOf(g, b) ==
    LET key == parseTag(g.fields[1].tag).name
        l == Split(b, <<"\n">>)[1]
        text == SubSeq(l, Len(key) + 4, Len(l))
        count(c) == Len(SelectSeq(text, LAMBDA x : x = c))
    IN  /\ HasPrefix(l, key \o Chars(" = "))
        /\ count("{") = Tables(g.fields[1].value)
        /\ count("}") = Tables(g.fields[1].value)
        /\ isTableType(g.fields[1].value.kind) => (Head(text) = "{" /\ Last(text) = "}")

\* C26: a map or a struct in a field tagged inline, and every map or struct
\* that is an element of a slice in a field tagged inline, is written between
\* braces on the line of the key.
InlineForm ==
    \A n \in DOMAIN results :
        (InlineField(given) /\ results[n].err = NoError) =>
            InlineFormOf(given, results[n].b)

\* Whether g is a struct of one string field tagged literal; the options and
\* the content of that field, and the text Marshal wrote after "s = ".
LiteralField(g) ==
    /\ g.kind = "struct"
    /\ Len(g.fields) = 1
    /\ g.fields[1].value.kind = "string"
    /\ Has(parseTag(g.fields[1].tag).options, "literal")

OptionsOf(g) == parseTag(g.fields[1].tag).options
ContentOf(g) == g.fields[1].value.v
ValueText(b) == SubSeq(b, 5, Len(b) - 1)

\* The forms of a string: between single quotes, and between double quotes.
IsLiteralForm(text) == Head(text) = "'" /\ Last(text) = "'"
IsBasicForm(text) == Head(text) = "\"" /\ Last(text) = "\""

FitKinds(i) ==
    UNION {DecodeInts[n][2] : n \in {m \in DOMAIN DecodeInts :
                                        Chars(DecodeInts[m][1]) = FormatInt(i)}}

\* The variables of a kind of integers in the Go value g, each as the pair
\* of its kind and of what it holds.
RECURSIVE IntVars(_)
IntVars(g) ==
    CASE g.kind \in IntKinds \cup UintKinds -> {<<g.kind, g.v>>}
      [] g.kind = "ptr" -> IF IsNil(g) THEN {} ELSE IntVars(g.elem)
      [] g.kind = "struct" -> UNION {IntVars(g.fields[n].value) : n \in DOMAIN g.fields}
      [] g.kind = "map" -> UNION {IntVars(g.v[k]) : k \in DOMAIN g.v}
      [] OTHER -> {}

\* The argument of Unmarshal is a pointer to struct { I kind }, kind a kind
\* of integers.
IntField(g) ==
    /\ g.kind = "ptr" /\ ~IsNil(g) /\ g.elem.kind = "struct"
    /\ Len(g.elem.fields) = 1
    /\ g.elem.fields[1].Name = <<"I">>
    /\ g.elem.fields[1].value.kind \in IntKinds \cup UintKinds

IntZero == ParseInt(<<"0">>).v

\* C28: Unmarshal of an integer into a field of a narrower kind of integers
\* never wraps. An integer outside the range of the kind of the field, and
\* a negative one for an unsigned kind, gives an UnmarshalOverflowError and
\* leaves the field as it was; an integer of the range is stored as it is;
\* and no variable of a kind of integers ever holds an integer outside the
\* range of its kind.
IntegerNeverWraps ==
    (run = "decoded" /\ ret.tree # 0) =>
        /\ \A x \in IntVars(results[1].v) : x[1] \in FitKinds(x[2])
        /\ \A n \in DOMAIN DecodeInts :
              (doc = IntDoc(DecodeInts[n][1]) /\ IntField(given)) =>
                  LET kind == given.elem.fields[1].value.kind
                      i == heap[Root].Elems[<<"i">>].v
                      stored == results[1].v.elem.fields[1].value.v
                  IN  IF kind \in DecodeInts[n][2]
                      THEN results[1].err = NoError /\ stored = i
                      ELSE /\ results[1].err.kind = "UnmarshalOverflowError"
                           /\ results[1].err.Type = kind
                           /\ stored = IntZero

\* 257 for a uint8 is refused, and the field stays 0.
IntegerNeverWrapsWitness ==
    /\ run = "decoded"
    /\ doc = IntDoc("257")
    /\ IntField(given)
    /\ given.elem.fields[1].value.kind = "uint8"
    /\ results[1].err = UnmarshalOverflowError(Chars("integer 257"), "uint8")
    /\ results[1].v.elem.fields[1].value.v = IntZero

(***************************************************************************)
(* Claims on calls of parse that run together                              *)
(***************************************************************************)

HasEnded(g) == goroutines[g].pc \in {"done", "crashed"}

\* Goroutine g has ended as goroutine alone did: both returned, or both
\* crashed, and with the same error and the same tree.
SameResult(g, alone) ==
    /\ goroutines[g].pc = goroutines[alone].pc
    /\ goroutines[g].ret.err = goroutines[alone].ret.err
    /\ goroutines[g].ret.tree = goroutines[alone].ret.tree

\* C29: calls of parse share no state that changes. Of two calls that run
\* together on two inputs, with the steps of their scanners interleaved in
\* any way, each returns the tree or the error that the call on its input
\* returned when it ran alone.
ParseAlone ==
    run = "go" =>
        /\ HasEnded(3) => SameResult(3, 1)
        /\ HasEnded(4) => SameResult(4, 2)

\* A call has returned a tree while a call that began before it is in the
\* middle of another document, which has an error further on.
ParseAloneWitness ==
    /\ run = "go"
    /\ goroutines[3].data = Chars("b = [1, 2]\n")
    /\ goroutines[4].data = Chars("a = 1\na = 2\n")
    /\ goroutines[3].pc = "done"
    /\ goroutines[3].ret.err = NoError
    /\ DOMAIN goroutines[3].ret.tree.Elems = {<<"b">>}
    /\ goroutines[4].pc = "loop"
    /\ goroutines[4].p < goroutines[3].p
    /\ parsers[goroutines[4].p].pos = 6
    /\ goroutines[2].ret.err.kind = "ParseError"

(***************************************************************************)
(* Claims on the stack of environments                                     *)
(***************************************************************************)

\* The table the names of a header lead to from table a: the table under
\* a name, or the last table of the array of tables under it.
RECURSIVE Located(_, _, _)
Located(h, a, path) ==
    IF path = <<>> THEN a
    ELSE LET value == h[a].Elems[Head(path)]
         IN  IF value.type = "table" THEN Located(h, value.v, Tail(path))
             ELSE Located(h, Last(h[value.v].Elems).v, Tail(path))

\* A scanner has been called and has returned another scanner with no
\* error and no panic.
Scanned ==
    /\ pc = "loop" /\ pc' = "loop"
    /\ run' = run
    /\ scanner' # Nil

\* The environment a is what the environment below holds after the step:
\* under the key that was pending if below is a table, as the last element
\* if it is an array.
InstalledBelow(a, below) ==
    IF heap'[below].kind = "table"
    THEN /\ keys # <<>>
         /\ keys' = Front(keys)
         /\ Last(keys) \in DOMAIN heap'[below].Elems
         /\ heap'[below].Elems[Last(keys)].v = a
         /\ heap'[below].Elems[Last(keys)].type = heap[a].kind
    ELSE /\ heap'[below].Elems # <<>>
         /\ Last(heap'[below].Elems).v = a
         /\ Last(heap'[below].Elems).type = heap[a].kind
         /\ keys' = keys

\* The steps on the stack of environments: a header leaves one entry, the
\* table it has located; only scanArrayStart and scanInlineTableStart push,
\* one entry for an array or a table just allocated, and the latter pushes
\* nothing for spaces and for a table closed at once; only scanArrayEnd and
\* scanInlineTableFieldEnd pop, the entry on top, which the entry below
\* then holds.
EnvSteps ==
    Scanned =>
        /\ scanner \in {"scanTableEnd", "scanArrayTableEnd"} =>
              /\ Len(envs') = 1
              /\ envs'[1].env = Located(heap', Root, names)
              /\ heap'[envs'[1].env].kind = "table"
        /\ Len(envs') > Len(envs) =>
              /\ scanner \in {"scanArrayStart", "scanInlineTableStart"}
              /\ Front(envs') = envs
              /\ Last(envs').env \notin DOMAIN heap
              /\ heap'[Last(envs').env].kind =
                     (IF scanner = "scanArrayStart" THEN "array" ELSE "table")
        /\ scanner = "scanArrayStart" => Len(envs') = Len(envs) + 1
        /\ (scanner = "scanInlineTableStart"
            /\ input[pos + 1] \notin {" ", "\t", "}"}) => Len(envs') = Len(envs) + 1
        /\ (Len(envs') < Len(envs)
            /\ scanner \notin {"scanTableEnd", "scanArrayTableEnd"}) =>
              /\ scanner \in {"scanArrayEnd", "scanInlineTableFieldEnd"}
              /\ envs' = Front(envs)
              /\ InstalledBelow(Last(envs).env, Last(envs').env)
        /\ (scanner = "scanArrayEnd" /\ input[pos + 1] = "]") => envs' = Front(envs)
        /\ (scanner = "scanInlineTableFieldEnd" /\ input[pos + 1] = "}") =>
              envs' = Front(envs)

\* The parser is at scanTop, between two statements.
AtTop == pc = "loop" /\ scanner = "scanTop"

\* C30: the discipline of the stack of environments. A header resets the
\* stack to one entry, the table located; the opening of an inline table
\* or of an array pushes one entry and its closing pops that entry and
\* installs it in the entry below. Hence, whenever the scanner is scanTop,
\* the stack of environments has one entry, a table, the stack of pending
\* keys is empty and the stack of scanners is empty.
EnvDiscipline ==
    /\ [](AtTop => /\ Len(envs) = 1
                   /\ heap[envs[1].env].kind = "table"
                   /\ keys = <<>>
                   /\ scanners = <<>>)
    /\ [][EnvSteps]_vars

\* The end of a document whose header is followed by an inline table that
\* holds arrays and an empty table: every entry pushed has been popped.
EnvDisciplineWitness ==
    /\ AtTop
    /\ doc = Chars("[t]\nx = {a = [[1], [2]], b = {}}\n")
    /\ pos = Len(input)
    /\ Len(envs) = 1
    /\ envs[1].env = heap[Root].Elems[<<"t">>].v
    /\ heap[envs[1].env].Elems[<<"x">>].type = "table"
    /\ DOMAIN heap[heap[envs[1].env].Elems[<<"x">>].v].Elems = {<<"a">>, <<"b">>}
    /\ keys = <<>>
    /\ scanners = <<>>

(***************************************************************************)
(* Claims on the values of nested tables and arrays                        *)
(***************************************************************************)

\* A step that is not the end of a header changes a table only by binding
\* the key pushed last, which it pops, in the environment on top; and an
\* array only by appending one element to the environment on top.
InstallSteps ==
    (Scanned /\ scanner \notin {"scanTableEnd", "scanArrayTableEnd"}) =>
        \A a \in DOMAIN heap :
            heap'[a] # heap[a] =>
                /\ a = Last(envs').env
                /\ IF heap[a].kind = "table"
                   THEN /\ keys # <<>>
                        /\ keys' = Front(keys)
                        /\ DOMAIN heap'[a].Elems = DOMAIN heap[a].Elems \cup {Last(keys)}
                        /\ Last(keys) \notin DOMAIN heap[a].Elems
                        /\ \A k \in DOMAIN heap[a].Elems : heap'[a].Elems[k] = heap[a].Elems[k]
                   ELSE /\ keys' = keys
                        /\ Len(heap'[a].Elems) = Len(heap[a].Elems) + 1
                        /\ Front(heap'[a].Elems) = heap[a].Elems

\* C31: values are installed as the text nests them. Every value of inline
\* tables and arrays inside one another is bound in the table that encloses
\* it, under the key before its `=`; the keys pending are used last in
\* first out, an outer key staying pending while the inner values are
\* installed; and the elements of an array are appended in the order of the
\* text.
NestingFollowed ==
    /\ []((pc = "done" /\ run = "first") =>
             \A n \in DOMAIN NestDocs :
                 doc = NestDocs[n][1] =>
                     /\ ret.tree # 0
                     /\ Tree(heap, TablePtr(Root)) = NestDocs[n][2])
    /\ [][InstallSteps]_vars

\* The inner table has been closed with its two keys, and the key of the
\* outer table and the key it is bound under are still pending.
NestingFollowedWitness ==
    /\ pc = "loop"
    /\ doc = NestDocs[1][1]
    /\ pos = 27
    /\ keys = <<<<"a">>, <<"b">>>>
    /\ Len(envs) = 3
    /\ DOMAIN heap[Last(envs).env].Elems = {<<"c">>, <<"d">>}
    /\ Len(heap[heap[Last(envs).env].Elems[<<"d">>].v].Elems) = 2

\* The value bound under the key a of the root is the value that was
\* written for it, whatever headers have followed.
KeptAsWritten ==
    \A n \in DOMAIN FrozenDocs :
        (doc = FrozenDocs[n][1] /\ <<"a">> \in DOMAIN heap[Root].Elems) =>
            Tree(heap, heap[Root].Elems[<<"a">>]) = FrozenDocs[n][2]

\* C32: a value installed in its parent is never changed by a later
\* statement, open arrays of tables and implicit tables apart: a table
\* written as an inline table `{...}` and an array written between brackets
\* are neither extended nor modified by a later `[path]` or `[[path]]`
\* header that leads through them or ends at them.
InstalledNeverChanged == (pc = "done" /\ run = "first" /\ ret.tree # 0) => KeptAsWritten

(***************************************************************************)
(* Claims on the end of the input and on panics                            *)
(***************************************************************************)

\* C33: parse reports success only once every byte of the input has been
\* read. The sentinel of the end of input, 0, is met at the end only: a
\* byte 0x00 of the input is never taken for the end, and what follows it
\* is never left unread.
WholeInputRead ==
    (run = "first" /\ pc = "done" /\ ret.err = NoError) =>
        /\ pos = Len(input)
        /\ NUL \notin Range(input)

(***************************************************************************)
(* Claims on arrays of tables                                              *)
(***************************************************************************)

\* A scanner step allocates an open array only at the end of a `[[...]]`
\* header, and scanArrayStart allocates closed arrays only.
ArraysAllocated ==
    Scanned =>
        \A a \in DOMAIN heap' \ DOMAIN heap :
            heap'[a].kind = "array" =>
                IF heap'[a].Closed THEN scanner = "scanArrayStart"
                ELSE scanner = "scanArrayTableEnd"

\* The step that resolves a header panics with no error of the runtime.
HeaderResolved ==
    (pc = "loop" /\ run' = run /\ scanner \in {"scanTableEnd", "scanArrayTableEnd"}) =>
        panicv'.kind # "runtime.Error"

\* C34: in every state of the parser every array with Closed = false holds
\* an element at least and tables only; the open arrays are made by
\* `[[...]]` headers only and an array written between brackets is made
\* with Closed = true; so the type assertion on the last element of an
\* array, when a header is resolved, never fails.
OpenArraysHoldTables ==
    /\ [](\A a \in OpenArrays :
             /\ heap[a].Elems # <<>>
             /\ \A i \in DOMAIN heap[a].Elems : heap[a].Elems[i].type = "table")
    /\ [][ArraysAllocated /\ HeaderResolved]_vars

\* A header has been resolved through the second table of an open array.
OpenArraysHoldTablesWitness ==
    /\ pc = "loop"
    /\ scanner = "scanTopEnd"
    /\ Len(envs) = 1
    /\ \E a \in OpenArrays :
          /\ Len(heap[a].Elems) = 2
          /\ \E k \in DOMAIN heap[heap[a].Elems[2].v].Elems :
                /\ heap[heap[a].Elems[2].v].Elems[k].type = "table"
                /\ heap[heap[a].Elems[2].v].Elems[k].v = envs[1].env

\* C35: parse returns a tree or a *ParseError and never lets a runtime panic
\* out: no scanner panics with anything but a *ParseError (no pop of an empty
\* stack, no slice without a mark, no index into an empty digit string, no
\* failed type assertion), so errRecover never panics again, and what parse
\* returns is the root with a nil error or nil with a *ParseError.
NeverPanics ==
    /\ pc # "crashed"
    /\ pc = "recover" => panicv.kind = "ParseError"
    /\ pc = "done" /\ run = "first" =>
           \/ ret.tree = Root /\ ret.err = NoError
           \/ ret.tree = 0 /\ ret.err.kind = "ParseError"

\* A sign with no digit after it is refused with a *ParseError.
NeverPanicsWitness ==
    /\ doc = Chars("x = +\n")
    /\ run = "first"
    /\ pc = "done"
    /\ ret.tree = 0
    /\ ret.err.kind = "ParseError"

(***************************************************************************)
(* Claims on the termination of the loop of parser.parse.                  *)
(***************************************************************************)

\* A step of a scanner moves the position forward, leaves a shorter scanner
\* stack, or returns nil.
Progresses ==
    \/ pos' > pos
    \/ Len(scanners') < Len(scanners)
    \/ scanner' = Nil

\* C36 as stated: every step of a scanner advances the position, pops the
\* scanner stack or returns nil, and the loop ends with err unset or set.
EveryStepProgresses ==
    /\ [][pc = "loop" /\ scanner # Nil /\ pc' = "loop" => Progresses]_vars
    /\ (pc = "loop") ~> (pc = "done")

\* C36, amended: the loop of parser.parse ends on every document, with the
\* tree or with an error, although a step may hand over to another scanner
\* without reading (scanNumberStart, scanTopEnd at the end of the input) or
\* move the position back by one byte (unread): no step leaves the position,
\* the scanner and the scanner stack all as they were.
LoopEnds ==
    /\ [][pc = "loop" /\ scanner # Nil /\ pc' = "loop" =>
            <<pos, scanner, scanners>>' # <<pos, scanner, scanners>>]_vars
    /\ (pc = "loop") ~> (pc = "done")

\* A document whose last statement has no newline ends through scanTopEnd
\* and scanTop, both of which read the end of the input.
LoopEndsWitness ==
    /\ doc = Chars("x = 1.5")
    /\ pc = "done"
    /\ ret.err = NoError
    /\ pos = Len(input)
    /\ ahead.next = Nil

(***************************************************************************)
(* Claims on what the emitter writes of a Go value.                        *)
(***************************************************************************)

\* The keys of the fields of v that Marshal is to write: those of a map
\* whose value is no nil pointer, and those of a struct that are exported,
\* not tagged "-", no nil pointer and not left out by omitempty, with the
\* keys of the values under them.
RECURSIVE FieldKeys(_)
FieldKeys(v) ==
    CASE v.kind = "ptr" -> IF IsNil(v) THEN {} ELSE FieldKeys(v.elem)
      [] v.kind = "map" ->
            UNION {IF isEmptyValue(v.v[k]) /\ v.v[k].kind = "ptr" THEN {}
                   ELSE {k} \cup FieldKeys(v.v[k]) : k \in DOMAIN v.v}
      [] v.kind = "slice" -> UNION {FieldKeys(v.v[i]) : i \in DOMAIN v.v}
      [] v.kind = "struct" ->
            UNION {LET sf == v.fields[i]
                       tag == parseTag(sf.tag)
                       x == indirectPtr(sf.value).v
                   IN  IF tag.name = Chars("-") THEN {}
                       ELSE IF sf.Anonymous /\ tag.name = <<>>
                               /\ (sf.value.kind = "struct"
                                   \/ (sf.value.kind = "ptr" /\ sf.value.elemKind = "struct"))
                       THEN FieldKeys(sf.value)
                       ELSE IF ~IsExported(sf.Name) THEN {}
                       ELSE IF x.kind = "ptr" THEN {}
                       ELSE IF Has(tag.options, "omitempty") /\ isEmptyValue(x) THEN {}
                       ELSE {IF tag.name = <<>> THEN sf.Name ELSE tag.name} \cup FieldKeys(x)
                   : i \in DOMAIN v.fields}
      [] OTHER -> {}

\* C37: the emitter never silently drops data: when Marshal returns no
\* error, the key of every field that is to be written, an array of tables
\* inside an inline table included, is in the output.
NothingDropped ==
    \A i \in DOMAIN results :
        results[i].err = NoError =>
            \A k \in FieldKeys(given) : Contains(results[i].b, k)

\* The slice of given that is written as a bracketed array under the key x:
\* the value of the key x of a map, unless its elements are tables, or the
\* field of a struct tagged inline; <<>> when given has no such slice.
Bracketed ==
    IF given.kind = "map"
    THEN IF DOMAIN given.v = {Chars("x")}
         THEN LET x == given.v[Chars("x")]
              IN  IF x.kind = "slice" /\ x.v # <<>>
                  THEN IF x.v[1].kind \in {"map", "struct"} THEN <<>> ELSE x.v
                  ELSE <<>>
         ELSE <<>>
    ELSE IF given.kind = "struct"
    THEN IF Len(given.fields) = 1
         THEN IF given.fields[1].tag = Chars("x,inline") /\ given.fields[1].value.kind = "slice"
              THEN given.fields[1].value.v
              ELSE <<>>
         ELSE <<>>
    ELSE <<>>

\* How many brackets and braces are open after the first i bytes of b.
Depth(b, i) ==
    Cardinality({j \in 1..i : b[j] \in {"[", "{"}})
        - Cardinality({j \in 1..i : b[j] \in {"]", "}"}})

\* The commas of b that stand between the elements of its outermost array.
ElemCommas(b) == Cardinality({i \in DOMAIN b : b[i] = "," /\ Depth(b, i) = 1})

\* C38: in a bracketed array the emitter writes, consecutive elements are
\* separated by a comma whatever their type: an array of n elements has
\* n - 1 commas between them.
CommaBetweenElements ==
    \A i \in DOMAIN results :
        results[i].err = NoError /\ Bracketed # <<>> =>
            ElemCommas(results[i].b) = Len(Bracketed) - 1

(***************************************************************************)
(* Claims on the Encoder.                                                  *)
(***************************************************************************)

\* What the call of Encode made by this step returned and wrote.
EncodeReturned == results'[Len(results')]

\* Marshal fails on the value handed to the call made by this step.
MarshalFails == \A g \in Ranged(given') : Marshal(g).err # NoError

\* C39: once a call of Encode has failed writing to the stream, every later
\* call returns that same error, whatever its value, and writes nothing; an
\* error of Marshal is returned by the call it arises in, which writes
\* nothing and leaves the encoder as it was, so that a later call can
\* succeed; and the error a Write returns is kept in the encoder.
ErrorLatched ==
    /\ [][enc.err # NoError =>
            /\ EncodeReturned.err = enc.err
            /\ EncodeReturned.b = <<>>
            /\ enc' = enc]_vars
    /\ [][enc.err = NoError /\ MarshalFails =>
            /\ \E g \in Ranged(given') : EncodeReturned.err = Marshal(g).err
            /\ EncodeReturned.b = <<>>
            /\ enc' = enc]_vars
    /\ [][enc.err = NoError /\ ~MarshalFails =>
            /\ enc'.err = EncodeReturned.err
            /\ enc'.w = enc.w \o EncodeReturned.b
            /\ EncodeReturned.err = NoError => EncodeReturned.b # <<>>]_vars

\* A Write has failed on the first call; the second call, on a value Marshal
\* refuses, and the third, on one it writes, return the error of the first.
ErrorLatchedWitness ==
    /\ pc = "encode"
    /\ Len(results) = 3
    /\ results[1].err \in WriteErrors
    /\ results[2] = [b |-> <<>>, err |-> results[1].err]
    /\ results[3] = [b |-> <<>>, err |-> results[1].err]
    /\ given = EncValues[1]
    /\ enc.err = results[1].err

(***************************************************************************)
(* Claims on strings written as multi-line basic strings.                  *)
(***************************************************************************)

\* The string of the field S of given.
GivenString == given.fields[1].value.v

\* C40: a string of valid UTF-8 written as a multi-line basic string parses
\* back to itself, wherever it has quotes: Marshal returns no error, parse
\* of what it returned returns no error, and the value of s is the string.
MultilineRoundTrips ==
    (/\ given.fields[1].tag \in {Chars("s,multiline"), Chars("s,multiline,ascii")}
     /\ GivenString # InvalidString) =>
        /\ pc \notin {"failed", "recover", "crashed"}
        /\ pc = "done" =>
               /\ ret.err = NoError
               /\ heap[Root].Elems[Chars("s")] = String(GivenString)

====
